---- MODULE Spec2Model ----
(***************************************************************************)
(* Model of the module bootloader protocol engine of go-modules            *)
(* (src/src/main.rs): Module::overwrite_module, the pipelined firmware     *)
(* line streamer, with the frame codec it uses.                            *)
(*                                                                         *)
(* One session is modelled.  Every SPI transfer is one step; the peer is   *)
(* the environment: each transfer either fails (a transport error) or      *)
(* returns an arbitrary reply.  A Rust panic (index out of range, unwrap   *)
(* of None / Err) ends the function with result "Panic".                   *)
(* The interrupt waits (timeout(.., interrupt).await) and the sleeps are    *)
(* not steps of their own in Spec: their outcome is dropped (`_ =`) and    *)
(* they assign none of its variables.  SpecTransport has them as steps.    *)
(***************************************************************************)
EXTENDS Integers, Sequences, FiniteSets, TLC

(***************************************************************************)
(* Program constants                                                       *)
(***************************************************************************)
BOOTMESSAGE_LENGTH == 46
BOOTMESSAGE_LENGTH_CHECK == 61
\* usize::MAX, the "first message" sentinel of firmware_line_check.  The model
\* only needs it to differ from every u16 and from every line index.
USIZE_MAX == 2147483647
\* firmware_error_counter > 10 aborts the upload
ERROR_CAP == 10
\* byte 6 of a bootloader's answer to the post-terminal probe
BOOTLOADER_ANSWER == 20

(***************************************************************************)
(* Bounds of the model                                                     *)
(***************************************************************************)
\* most frames one execution may hand to the SPI channel
MaxSent == 14
\* largest line index a reply may acknowledge (replies carry a u16)
MaxRxLine == 5

\* the longest list of candidate versions update_module is given
MaxFirmwares == 3

\* the largest slot number Module::new is called with
MaxSlot == 9

\* u8::MAX
U8_MAX == 255

(***************************************************************************)
(* Text: a string is a sequence of one-character strings                   *)
(***************************************************************************)
HexChars == <<"0","1","2","3","4","5","6","7","8","9","A","B","C","D","E","F">>

IsHexChar(c) == \E i \in 1..16 : HexChars[i] = c

HexVal(c) == (CHOOSE i \in 1..16 : HexChars[i] = c) - 1

\* format!("{:02X}", b): how the image's bytes were written into the file
HexByte(b) == <<HexChars[(b \div 16) + 1], HexChars[(b % 16) + 1]>>

\* str::get(a..b): None unless the range lies in the string
GetIsSome(s, a, b) == a <= b /\ b <= Len(s)

GetRange(s, a, b) == SubSeq(s, a + 1, b)

\* u8::from_str_radix(s, 16) is Ok: non-empty, hex digits only, fits in u8
RadixIsOk(s) == Len(s) \in 1..2 /\ \A i \in 1..Len(s) : IsHexChar(s[i])

RECURSIVE RadixValue(_)
RadixValue(s) ==
    IF Len(s) = 0 THEN 0
    ELSE 16 * RadixValue(SubSeq(s, 1, Len(s) - 1)) + HexVal(s[Len(s)])

\* str.get(a..b).unwrap() and u8::from_str_radix(.., 16).unwrap() both succeed
ParseOk(s, a, b) == GetIsSome(s, a, b) /\ RadixIsOk(GetRange(s, a, b))

ParseAt(s, a, b) == RadixValue(GetRange(s, a, b))

\* firmware_content_string.split('\n').collect()
RECURSIVE Split(_)
Split(s) ==
    IF \A i \in 1..Len(s) : s[i] # "\n" THEN <<s>>
    ELSE LET i == CHOOSE k \in 1..Len(s) :
                    s[k] = "\n" /\ \A j \in 1..(k - 1) : s[j] # "\n"
         IN  <<SubSeq(s, 1, i - 1)>> \o Split(SubSeq(s, i + 1, Len(s)))

(***************************************************************************)
(* Firmware images the executions are run on                               *)
(***************************************************************************)
RECURSIVE HexBytes(_)
HexBytes(bs) == IF Len(bs) = 0 THEN <<>> ELSE HexByte(bs[1]) \o HexBytes(Tail(bs))

\* one S-Record: 'S', type nibble, length byte, then the length's bytes
Record(t, body) == <<"S", HexChars[t + 1]>> \o HexByte(Len(body)) \o HexBytes(body)

NL == <<"\n">>

\* the image of scenario S1: S0, S3, S3, S7 (4 lines, no final newline)
ImageS1 ==
    Record(0, <<171, 84>>) \o NL \o Record(3, <<1, 2, 3, 250>>) \o NL
    \o Record(3, <<16, 239>>) \o NL \o Record(7, <<8, 247>>)

\* the same image as a file that ends with a newline (split gives a 5th, empty line)
ImageS1NL == ImageS1 \o NL

\* a two-record image
ImageShort == Record(0, <<171, 84>>) \o NL \o Record(7, <<8, 247>>) \o NL

\* an image whose first record is the terminal one
ImageTerminalOnly == Record(7, <<8, 247>>) \o NL

\* an image without terminal record
ImageNoTerminal == Record(0, <<171, 84>>) \o NL \o Record(3, <<16, 239>>) \o NL

\* an image with a line that is no record
ImageBadLine == Record(0, <<171, 84>>) \o NL \o <<"S", "X", "0", "1">> \o NL
                \o Record(7, <<8, 247>>) \o NL

\* a record shorter than it declares
ImageTruncated == Record(0, <<171, 84>>) \o NL \o <<"S", "3", "0", "4", "0", "1">> \o NL
                  \o Record(7, <<8, 247>>) \o NL

\* files that split into one line
ImageOneLine == Record(7, <<8, 247>>)

ImageEmpty == <<>>

Images ==
    {ImageS1, ImageS1NL, ImageShort, ImageTerminalOnly, ImageNoTerminal,
     ImageBadLine, ImageTruncated, ImageOneLine, ImageEmpty}

\* the firmware version asked for: hardware 20-10-1-5, software 1.2.3
NewFirmware == <<20, 10, 1, 5, 1, 2, 3>>

\* FirmwareVersion::get_software
get_software(fw) == SubSeq(fw, 5, 7)

(***************************************************************************)
(* Frame codec                                                             *)
(***************************************************************************)
\* the transmit buffers are [0u8; BOOTMESSAGE_LENGTH + 1] and
\* [0u8; BOOTMESSAGE_LENGTH_CHECK]; a buffer is a function from index to byte
ZeroBuf(n) == [i \in 0..(n - 1) |-> 0]

BufLen(buf) == Cardinality(DOMAIN buf)

RECURSIVE WrappingSum(_, _)
WrappingSum(message, length) ==
    IF length = 0 THEN 0
    ELSE (WrappingSum(message, length - 1) + message[length - 1]) % 256

\* calculate_checksum(message, length): message.get(0..length).unwrap() must
\* be Some, then the wrapping sum of the first `length` bytes
calculate_checksum(message, length) == WrappingSum(message, length)

\* tx_buf[0] = cmd; tx_buf[1] = BOOTMESSAGE_LENGTH - 1; tx_buf[2] = cmd
WithHeader(buf, cmd) ==
    [buf EXCEPT ![0] = cmd, ![1] = BOOTMESSAGE_LENGTH - 1, ![2] = cmd]

\* mutant of WithChecksum: the sum runs over the checksum byte as well
WithChecksum_StaleByte(buf) ==
    [buf EXCEPT ![BOOTMESSAGE_LENGTH - 1] = calculate_checksum(buf, BOOTMESSAGE_LENGTH)]

\* tx_buf[BOOTMESSAGE_LENGTH - 1] = calculate_checksum(&tx_buf, BOOTMESSAGE_LENGTH - 1)
WithChecksum(buf) ==
    [buf EXCEPT ![BOOTMESSAGE_LENGTH - 1] =
                    calculate_checksum(buf, BOOTMESSAGE_LENGTH - 1)]

(***************************************************************************)
(* S-Record decoding done at the top of the upload loop                    *)
(***************************************************************************)
\* lines[line_number] does not panic (Vec indexing, 0-based)
LineExists(ls, n) == n >= 0 /\ n < Len(ls)

LineAt(ls, n) == ls[n + 1]

\* u8::from_str_radix(lines[line_number].get(1..2).unwrap(), 16).unwrap() and
\* u8::from_str_radix(lines[line_number].get(2..4).unwrap(), 16).unwrap() succeed
DecodeOk(ls, n) ==
    /\ LineExists(ls, n)
    /\ ParseOk(LineAt(ls, n), 1, 2)
    /\ ParseOk(LineAt(ls, n), 2, 4)

TypeOf(ls, n) == ParseAt(LineAt(ls, n), 1, 2)

LengthOf(ls, n) == ParseAt(LineAt(ls, n), 2, 4)

\* ((line_length * 2) + 2) as usize, computed in u8 (wrapping, as in a build
\* without overflow checks; no image of the model reaches the overflow)
LoopLimit(line_length) == (((line_length * 2) % 256) + 2) % 256

\* mutant of CopyCount: one iteration fewer, so that the write after the loop
\* lands on the last iteration's byte and the record's last byte is left out
CopyCount_LoopOnly(line_length) ==
    IF LoopLimit(line_length) <= 4 THEN 0 ELSE (LoopLimit(line_length) - 3) \div 2

\* iterations of `while message_pointer < limit` from message_pointer = 2 in steps of 2
CopyCount(line_length) ==
    IF LoopLimit(line_length) <= 2 THEN 0 ELSE (LoopLimit(line_length) - 1) \div 2

\* the payload copy loop and the write after it do not panic: every pair of
\* characters exists and is hex, every index is inside tx_buf
PayloadOk(buf, line, count) ==
    \A k \in 0..count :
        /\ (9 + k) \in DOMAIN buf
        /\ ParseOk(line, 2 + 2 * k, 4 + 2 * k)

\* the firmware line frame as the code leaves it in tx_buf
BuildLineFrame(buf, n, mtype, line, count) ==
    LET head == [WithHeader(buf, 39) EXCEPT ![6] = (n \div 256) % 256,
                                           ![7] = n % 256,
                                           ![8] = mtype]
        body == [i \in DOMAIN head |->
                    IF i \in 9..(9 + count)
                    THEN ParseAt(line, 2 + 2 * (i - 9), 4 + 2 * (i - 9))
                    ELSE head[i]]
    IN  WithChecksum(body)

\* the erase frame: command 29 with the new software version at bytes 6, 7, 8
BuildEraseFrame(buf, fw) ==
    LET sw == get_software(fw)
    IN  WithChecksum([WithHeader(buf, 29) EXCEPT ![6] = sw[1], ![7] = sw[2], ![8] = sw[3]])

\* the pre-terminal status probe, built in the reused tx_buf
BuildProbeFrame(buf) == WithChecksum(WithHeader(buf, 49))

\* the post-terminal probe, built in tx_buf_escape
BuildEscapeFrame == WithChecksum(WithHeader(ZeroBuf(BOOTMESSAGE_LENGTH_CHECK), 49))

\* mutant of BuildCancelFrame: the status-probe id instead of the cancel id
BuildCancelFrame_WrongCommand(buf) == WithChecksum(WithHeader(buf, 49))

\* cancel_firmware_upload's frame
BuildCancelFrame(buf) == WithChecksum(WithHeader(buf, 19))

(***************************************************************************)
(* Replies of the peer                                                     *)
(***************************************************************************)
\* what the engine reads of a 47-byte reply: ck is
\* rx_buf[45] == calculate_checksum(&rx_buf, 45), line is the u16 of bytes 6..8
\* read big-endian, b8 is byte 8
Replies == [ck : BOOLEAN, line : 0..MaxRxLine, b8 : {0, 1}]

\* what the engine reads of the 61-byte reply to the post-terminal probe: b1 is
\* byte 1, which the code uses as the checksum position; ck is
\* rx[b1] == calculate_checksum(&rx, b1) when that index exists; b6 is byte 6
EscapeReplies == [b1 : {0, 45, 61}, ck : BOOLEAN, b6 : {0, BOOTLOADER_ANSWER}]

\* rx_buf_escape = [0u8; 61]: byte 1 is 0, byte 0 equals the empty sum, byte 6 is 0
ZeroEscapeReply == [b1 |-> 0, ck |-> TRUE, b6 |-> 0]

\* mutant of Acceptable: byte 8, the module's own verdict, is not looked at
Acceptable_IgnoresByte8(r, check) == r.ck /\ r.line = check

\* mutant of Acceptable: the acknowledged line index is not compared
Acceptable_IgnoresLine(r, check) == r.ck /\ r.b8 = 1

\* local_checksum_match && received_line_match && remote_checksum_match
Acceptable(r, check) == r.ck /\ r.line = check /\ r.b8 = 1

\* rx_buf_escape[rx_buf_escape[1] as usize] is inside the 61-byte buffer
EscapeIndexOk(r) == r.b1 < BOOTMESSAGE_LENGTH_CHECK

\* mutant of BootloaderAnswered: byte 6 is not looked at
BootloaderAnswered_ChecksumOnly(r) == r.ck

\* checksum at the reply's own length byte matches and byte 6 == 20
BootloaderAnswered(r) == r.ck /\ r.b6 = BOOTLOADER_ANSWER

(***************************************************************************)
(* State of one execution of Module::overwrite_module                      *)
(***************************************************************************)
VARIABLES
    file_readable,          \* fs::read_to_string returns Ok
    content,                \* firmware_content_string
    lines,                  \* lines: Vec<&str>
    pc,                     \* position in overwrite_module
    result,                 \* "none", "Ok", "Untouched", "Corrupted" or "Panic"
    line_number,
    firmware_line_check,
    firmware_error_counter,
    message_type,
    tx_buf,
    rx_buf_escape,
    sent,                   \* history: every frame handed to spidev.transfer, in order
    wired,                  \* history: command ids of the transfers that succeeded
    acked,                  \* history: line indices acknowledged by accepted replies
    faults,                 \* history: positions in sent of the exchanges that failed or were not accepted
    terminal_accepted,      \* history: a reply to a type-7 line frame was accepted
    escape_received,        \* history: the latest post-terminal probe transfer succeeded
    iterations,             \* history: how many times the body of the upload loop was entered
    every_reply_bad         \* history: every exchange so far went through and its reply had a wrong checksum

(***************************************************************************)
(* State of the caller of overwrite_module and of the session's reset line *)
(***************************************************************************)
VARIABLES
    caller,                 \* "none", "update_module" or "overwrite" (the overwrite command of main)
    caller_pc,              \* position in the caller after overwrite_module has returned
    report,                 \* what the caller hands upward, "none" until then
    reset_log               \* history: the writes to the reset line, each with the number of frames sent before it

caller_state == <<caller, caller_pc, report, reset_log>>

(***************************************************************************)
(* State of the update policy of Module::update_module                     *)
(***************************************************************************)
VARIABLES
    firmware,               \* self.firmware, the version the session reports
    firmwares,              \* firmwares: &[FirmwareVersion], the candidates
    update,                 \* the Option<(index, software)> the filter chain yields
    policy_pc,              \* position in update_module
    dispatched              \* the version handed to overwrite_module, <<>> until then

policy_state == <<firmware, firmwares, update, policy_pc, dispatched>>

(***************************************************************************)
(* State of Module::new and Module::get_module_info                        *)
(***************************************************************************)
VARIABLES
    controller,             \* controller: &ControllerTypes
    slot,                   \* slot: u8
    spidev,                 \* the path of the SPI device opened, "" until then
    info_pc,                \* position in Module::new; "some" / "none" once it has returned
    rx_buf,                 \* rx_buf of get_module_info
    manufacturer,
    qr_front,
    qr_back

info_state == <<controller, slot, spidev, info_pc, rx_buf, manufacturer, qr_front, qr_back>>

(***************************************************************************)
(* State of a conversion of a FirmwareVersion to a file name and back      *)
(***************************************************************************)
VARIABLES
    version,                \* the FirmwareVersion converted
    name,                   \* the String as_filename returned
    parsed,                 \* the Option<FirmwareVersion> from_filename returned
    name_pc

name_state == <<version, name, parsed, name_pc>>

(***************************************************************************)
(* State of two sessions that run at the same time                         *)
(***************************************************************************)
VARIABLES
    pair,                   \* the controller, the two slots, the peer behind each device, and
                            \* what each session does when it runs alone
    sess,                   \* per slot: the session's program state
    bus,                    \* per SPI device: the frames written to it, in order
    leds                    \* per reset file: the values written to it, in order

pair_state == <<pair, sess, bus, leds>>

(***************************************************************************)
(* State of the process: main, its exit functions and the SIGINT handler   *)
(***************************************************************************)
VARIABLES
    nodered,                \* main: the nodered service was active at start-up
    simulink,               \* main: the go-simulink service was active at start-up
    command,                \* the command main runs, "" until it is known
    tasks,                  \* per session of the command: "running", or what the session returned
    main_pc,                \* position of the main thread
    exit_fn,                \* the exit function the main thread is in, "none" outside
    handler_pc,             \* position of the thread that runs the ctrlc handler
    systemctl,              \* history: the systemctl invocations, in order
    sigint_at,              \* history: where the main thread was and how many sessions ran when SIGINT arrived
    exit_code               \* <<code>> once exit(code) or a panic has ended the process, <<>> until then

process_state ==
    <<nodered, simulink, command, tasks, main_pc, exit_fn, handler_pc, systemctl,
      sigint_at, exit_code>>

(***************************************************************************)
(* State of the evaluation of one reply in the upload loop                 *)
(***************************************************************************)
VARIABLES
    exchange,               \* the exchange the reply answers: "line" (a line frame) or "probe" (a status probe)
    expected,               \* firmware_line_check when the reply arrives
    reply,                  \* rx_buf of overwrite_module after the transfer
    verdict                 \* "none", then the branch taken: "success", "error" or "ignored"

reply_state == <<exchange, expected, reply, verdict>>

(***************************************************************************)
(* State of a session seen at its transport: the SPI device, the reset     *)
(* line and the interrupt source                                           *)
(***************************************************************************)
VARIABLES
    run,                    \* the session's program state (as in NewSession)
    phase,                  \* where the session is between its transport operations
    interrupt,              \* self.interrupt: the falling-edge events queued and not yet taken,
                            \* each with the number of drains that had ended when it was raised
    oplog,                  \* history: the transport operations performed, in order
    wait_ms,                \* the timeout of the interrupt wait the session is in, 0 outside
    drained,                \* history: events taken by the latest drain loop
    woke,                   \* history: per timeout, how the latest wait ended, <<>> before:
                            \* <<TRUE, stamp of the event taken>> or <<FALSE, -1>>
    plan                    \* the peer: the positions in oplog of the replies with a wrong
                            \* checksum and of the transfers that fail

transport_state == <<run, phase, interrupt, oplog, wait_ms, drained, woke, plan>>

(***************************************************************************)
(* State of the construction of one firmware line frame                    *)
(***************************************************************************)
VARIABLES
    given,                  \* history: the type nibble and the bytes the record was written from
    srec_line,              \* lines[line_number]: the characters of the record
    srec_index,             \* line_number
    srec_decoded,           \* <<message_type, line_length>> once decoded, <<>> before
    frame_buf,              \* tx_buf
    frame_pc                \* "idle", "decode", "build", "built" or "panic"

frame_state == <<given, srec_line, srec_index, srec_decoded, frame_buf, frame_pc>>

\* the state of the operations other than the upload and its callers
elsewhere ==
    <<policy_state, info_state, name_state, pair_state, process_state, reply_state,
      transport_state, frame_state>>

\* what overwrite_module never touches
beyond == <<caller_state, elsewhere>>

vars ==
    <<file_readable, content, lines, pc, result, line_number, firmware_line_check,
      firmware_error_counter, message_type, tx_buf, rx_buf_escape, sent, wired,
      acked, faults, terminal_accepted, escape_received, iterations,
      every_reply_bad, caller, caller_pc, report, reset_log,
      firmware, firmwares, update, policy_pc, dispatched,
      controller, slot, spidev, info_pc, rx_buf, manufacturer, qr_front, qr_back,
      version, name, parsed, name_pc, pair, sess, bus, leds,
      nodered, simulink, command, tasks, main_pc, exit_fn, handler_pc, systemctl,
      sigint_at, exit_code, exchange, expected, reply, verdict,
      run, phase, interrupt, oplog, wait_ms, drained, woke, plan,
      given, srec_line, srec_index, srec_decoded, frame_buf, frame_pc>>

inputs == <<file_readable, content>>

loop_state == <<line_number, firmware_line_check, firmware_error_counter, message_type>>

history == <<sent, wired, acked, faults, terminal_accepted, escape_received>>

loop_history == <<iterations, every_reply_bad>>

\* Option::None of the filter chain
NoUpdate == [some |-> FALSE, index |-> 0, software |-> <<>>]

\* the version a session that runs an upload reports (not read by the upload)
SessionFirmware == <<20, 10, 1, 5, 0, 0, 9>>

\* Module::new is not running: the session of slot 1 of a Moduline IV exists
InfoIdle ==
    /\ controller = "ModulineIV"
    /\ slot = 1
    /\ spidev = "/dev/spidev1.0"
    /\ info_pc = "idle"
    /\ rx_buf = ZeroBuf(BOOTMESSAGE_LENGTH + 1)
    /\ manufacturer = 0
    /\ qr_front = 0
    /\ qr_back = 0

\* Option::None of from_filename
NoVersion == [some |-> FALSE, firmware |-> <<>>]

\* no file name is being converted
NameIdle ==
    /\ version = SessionFirmware
    /\ name = <<>>
    /\ parsed = NoVersion
    /\ name_pc = "idle"

\* no second session runs
PairIdle ==
    /\ pair = <<>>
    /\ sess = <<>>
    /\ bus = <<>>
    /\ leds = <<>>

\* the process is not looked at: no service was stopped, nothing has exited
ProcessIdle ==
    /\ nodered = FALSE
    /\ simulink = FALSE
    /\ command = ""
    /\ tasks = <<>>
    /\ main_pc = "idle"
    /\ exit_fn = "none"
    /\ handler_pc = "idle"
    /\ systemctl = <<>>
    /\ sigint_at = <<>>
    /\ exit_code = <<>>

\* no reply is being evaluated on its own
ReplyIdle ==
    /\ exchange = "none"
    /\ expected = USIZE_MAX
    /\ reply = ZeroBuf(BOOTMESSAGE_LENGTH + 1)
    /\ verdict = "none"

\* no line frame is built on its own
FrameIdle ==
    /\ given = <<>>
    /\ srec_line = <<>>
    /\ srec_index = 0
    /\ srec_decoded = <<>>
    /\ frame_buf = ZeroBuf(BOOTMESSAGE_LENGTH + 1)
    /\ frame_pc = "idle"

\* no session is looked at at its transport
TransportIdle ==
    /\ run = <<>>
    /\ phase = "idle"
    /\ interrupt = <<>>
    /\ oplog = <<>>
    /\ wait_ms = 0
    /\ drained = 0
    /\ woke = <<>>
    /\ plan = <<>>

\* update_module is not running
PolicyIdle ==
    /\ firmwares = <<>>
    /\ update = NoUpdate
    /\ policy_pc = "idle"
    /\ dispatched = <<>>

\* the history of a session that has not transferred anything
NoHistory ==
    /\ sent = <<>>
    /\ wired = {}
    /\ acked = {}
    /\ faults = <<>>
    /\ terminal_accepted = FALSE
    /\ escape_received = FALSE
    /\ iterations = 0
    /\ every_reply_bad = TRUE
    /\ reset_log = <<>>

\* overwrite_module and its callers are not running
UploadIdle ==
    /\ file_readable = FALSE
    /\ content = ImageEmpty
    /\ lines = <<>>
    /\ pc = "idle"
    /\ result = "none"
    /\ line_number = 0
    /\ firmware_line_check = USIZE_MAX
    /\ firmware_error_counter = 0
    /\ message_type = 0
    /\ tx_buf = ZeroBuf(BOOTMESSAGE_LENGTH + 1)
    /\ rx_buf_escape = ZeroEscapeReply
    /\ caller = "none"
    /\ caller_pc = "await"
    /\ report = "none"

Init ==
    /\ firmware = SessionFirmware
    /\ ProcessIdle
    /\ ReplyIdle
    /\ TransportIdle
    /\ FrameIdle
    /\ PolicyIdle
    /\ InfoIdle
    /\ NameIdle
    /\ PairIdle
    /\ \/ file_readable = TRUE /\ content \in Images
       \/ file_readable = FALSE /\ content = ImageEmpty
    /\ lines = <<>>
    /\ pc = "start"
    /\ result = "none"
    /\ line_number = 0
    /\ firmware_line_check = USIZE_MAX
    /\ firmware_error_counter = 0
    /\ message_type = 0
    /\ tx_buf = ZeroBuf(BOOTMESSAGE_LENGTH + 1)
    /\ rx_buf_escape = ZeroEscapeReply
    /\ sent = <<>>
    /\ wired = {}
    /\ acked = {}
    /\ faults = <<>>
    /\ terminal_accepted = FALSE
    /\ escape_received = FALSE
    /\ iterations = 0
    /\ every_reply_bad = TRUE
    /\ caller = "none"
    /\ caller_pc = "await"
    /\ report = "none"
    /\ reset_log = <<>>

\* the function returns (or panics) with outcome r
Return(r) == pc' = "done" /\ result' = r

\* buf is handed to spidev.transfer
Send(buf) == sent' = Append(sent, [len |-> BufLen(buf), bytes |-> buf])

\* a transfer of overwrite_module; the runs explored end at MaxSent frames
Transmit(buf) ==
    /\ Len(sent) < MaxSent
    /\ Send(buf)

\* mutant of TooFewLines: a one-line file passes
TooFewLines_OffByOne(ls) == Len(ls) < 1

\* lines.len() <= 1
TooFewLines(ls) == Len(ls) <= 1

\* src 520-541: read the file, split it, refuse a file of at most one line
ReadFile ==
    /\ pc = "start"
    /\ IF ~file_readable
       THEN Return("Untouched") /\ lines' = lines
       ELSE /\ lines' = Split(content)
            /\ IF TooFewLines(lines')
               THEN Return("Untouched")
               ELSE pc' = "erase" /\ result' = result
    /\ UNCHANGED <<beyond, inputs, loop_state, tx_buf, rx_buf_escape, history, loop_history>>

\* the result of a failed erase transfer
EraseFailure == "Untouched"

\* src 543-571: build and write the erase frame
Erase ==
    /\ pc = "erase"
    /\ tx_buf' = BuildEraseFrame(tx_buf, NewFirmware)
    /\ Transmit(tx_buf')
    /\ \E ok \in BOOLEAN :
          IF ok
          THEN /\ wired' = wired \cup {tx_buf'[0]}
               /\ faults' = faults
               /\ pc' = "loop" /\ result' = result
          ELSE /\ wired' = wired
               /\ faults' = Append(faults, Len(sent'))
               /\ Return(EraseFailure)
    /\ UNCHANGED <<beyond, inputs, lines, loop_state, rx_buf_escape, acked,
                   terminal_accepted, escape_received, loop_history>>

\* `while message_type != 7` is left
LoopCondition(mtype) == mtype # 7

\* src 591: the loop ends
LoopExit ==
    /\ pc = "loop"
    /\ ~LoopCondition(message_type)
    /\ pc' = "cancel"
    /\ UNCHANGED <<beyond, inputs, lines, result, loop_state, tx_buf, rx_buf_escape, history,
                   loop_history>>

\* src 593-596: the record at line_number does not exist or does not decode
DecodePanic ==
    /\ pc = "loop"
    /\ LoopCondition(message_type)
    /\ ~DecodeOk(lines, line_number)
    /\ Return("Panic")
    /\ iterations' = iterations + 1
    /\ UNCHANGED <<beyond, inputs, lines, loop_state, tx_buf, rx_buf_escape, history,
                   every_reply_bad>>

\* mutant of NeedsProbe: the terminal line is never held back
NeedsProbe_Never(mtype, check, n) == FALSE

\* mutant of NeedsProbe: the terminal line is held back only as the first frame
NeedsProbe_FirstOnly(mtype, check, n) == mtype = 7 /\ check = USIZE_MAX

\* src 598: the terminal line is held back behind a status probe
NeedsProbe(mtype, check, n) == mtype = 7 /\ check # n

\* mutant of ProbeFailed: the error is not counted
ProbeFailed_Uncounted ==
    /\ firmware_error_counter' = firmware_error_counter
    /\ line_number' = firmware_line_check
    /\ firmware_line_check' = line_number
    /\ message_type' = 0
    /\ faults' = Append(faults, Len(sent'))
    /\ acked' = acked
    /\ pc' = "loop" /\ result' = result

\* a failed exchange in the status probe path (src 620-624, 628-632): no cap check
ProbeFailed ==
    /\ firmware_error_counter' = firmware_error_counter + 1
    /\ line_number' = firmware_line_check
    /\ firmware_line_check' = line_number
    /\ message_type' = 0
    /\ faults' = Append(faults, Len(sent'))
    /\ acked' = acked
    /\ pc' = "loop" /\ result' = result

\* src 598-635: the pre-terminal status probe
StatusProbe ==
    /\ pc = "loop"
    /\ LoopCondition(message_type)
    /\ DecodeOk(lines, line_number)
    /\ NeedsProbe(TypeOf(lines, line_number), firmware_line_check, line_number)
    /\ tx_buf' = BuildProbeFrame(tx_buf)
    /\ Transmit(tx_buf')
    /\ iterations' = iterations + 1
    /\ \E ok \in BOOLEAN, r \in Replies :
          /\ every_reply_bad' = (every_reply_bad /\ ok /\ ~r.ck)
          /\ IF ok
             THEN /\ wired' = wired \cup {tx_buf'[0]}
                  /\ IF Acceptable(r, firmware_line_check)
                     THEN /\ message_type' = TypeOf(lines, line_number)
                          /\ acked' = acked \cup {r.line}
                          /\ pc' = "line" /\ result' = result
                          /\ UNCHANGED <<line_number, firmware_line_check,
                                         firmware_error_counter, faults>>
                     ELSE ProbeFailed
             ELSE wired' = wired /\ ProbeFailed
    /\ UNCHANGED <<beyond, inputs, lines, rx_buf_escape, terminal_accepted, escape_received>>

\* mutant of CapExceeded: the tenth error already aborts
CapExceeded_AtCap(count) == count >= ERROR_CAP

\* firmware_error_counter > 10
CapExceeded(count) == count > ERROR_CAP

\* mutant of CapFailure: the wrong error kind after the cap
CapFailure_Untouched == "Untouched"

\* src 770, 784: what the upload returns once the cap is exceeded
CapFailure == "Corrupted"

\* a failed exchange of a line frame (src 727-731, 757-771 and 774-786)
LineFailed ==
    /\ line_number' = firmware_line_check
    /\ firmware_line_check' = line_number
    /\ message_type' = 0
    /\ firmware_error_counter' = firmware_error_counter + 1
    /\ faults' = Append(faults, Len(sent'))
    /\ acked' = acked
    /\ terminal_accepted' = terminal_accepted
    /\ IF CapExceeded(firmware_error_counter')
       THEN Return(CapFailure)
       ELSE pc' = "loop" /\ result' = result

\* mutant of AcceptedLineNumber: no swap back after an odd number of errors
AcceptedLineNumber_NoSwapBack(count, n, check) == n

\* src 691-697: line_number after an accepted reply, before any increment
AcceptedLineNumber(count, n, check) == IF count % 2 = 1 THEN check ELSE n

\* src 691-697: firmware_line_check after an accepted reply
AcceptedLineCheck(count, n, check) == n

\* src 723: line_number after the success of a non-terminal line
NextLine(n) == n + 1

\* src 724: firmware_error_counter after the success of a non-terminal line
ErrorsAfterSuccess(count) == 0

\* an accepted reply to a line frame of type mtype (src 690-726)
LineAccepted(mtype, r) ==
    /\ acked' = acked \cup {r.line}
    /\ faults' = faults
    /\ firmware_line_check' =
           AcceptedLineCheck(firmware_error_counter, line_number, firmware_line_check)
    /\ message_type' = mtype
    /\ result' = result
    /\ IF mtype = 7
       THEN /\ line_number' =
                   AcceptedLineNumber(firmware_error_counter, line_number, firmware_line_check)
            /\ firmware_error_counter' = firmware_error_counter
            /\ terminal_accepted' = TRUE
            /\ pc' = "escape"
       ELSE /\ line_number' =
                   NextLine(AcceptedLineNumber(firmware_error_counter, line_number,
                                               firmware_line_check))
            /\ firmware_error_counter' = ErrorsAfterSuccess(firmware_error_counter)
            /\ terminal_accepted' = terminal_accepted
            /\ pc' = "loop"

\* mutant of IsFirstExchange: the first reply is examined like every other
IsFirstExchange_Never(check) == FALSE

\* src 677: firmware_line_check == usize::MAX
IsFirstExchange(check) == check = USIZE_MAX

\* src 677-682: the reply to the first frame is junk and is not looked at
FirstReplyIgnored(mtype) ==
    /\ line_number' = line_number + 1
    /\ firmware_line_check' = 0
    /\ message_type' = mtype
    /\ pc' = "loop" /\ result' = result
    /\ UNCHANGED <<firmware_error_counter, acked, faults, terminal_accepted>>

\* src 636-789: build the firmware line frame, exchange it, act on the reply
LineFrame ==
    /\ \/ pc = "line"
       \/ /\ pc = "loop"
          /\ LoopCondition(message_type)
          /\ DecodeOk(lines, line_number)
          /\ ~NeedsProbe(TypeOf(lines, line_number), firmware_line_check, line_number)
    /\ LET mtype == TypeOf(lines, line_number)
           line  == LineAt(lines, line_number)
           count == CopyCount(LengthOf(lines, line_number))
       IN  IF ~PayloadOk(tx_buf, line, count)
           THEN /\ Return("Panic")
                /\ UNCHANGED <<loop_state, tx_buf, history, every_reply_bad>>
           ELSE /\ tx_buf' = BuildLineFrame(tx_buf, line_number, mtype, line, count)
                /\ Transmit(tx_buf')
                /\ \E ok \in BOOLEAN, r \in Replies :
                      /\ every_reply_bad' = (every_reply_bad /\ ok /\ ~r.ck)
                      /\ IF ok
                         THEN /\ wired' = wired \cup {tx_buf'[0]}
                              /\ IF IsFirstExchange(firmware_line_check)
                                 THEN FirstReplyIgnored(mtype)
                                 ELSE IF Acceptable(r, firmware_line_check)
                                      THEN LineAccepted(mtype, r)
                                      ELSE LineFailed
                         ELSE wired' = wired /\ LineFailed
                /\ escape_received' = escape_received
    /\ iterations' = IF pc = "loop" THEN iterations + 1 ELSE iterations
    /\ UNCHANGED <<beyond, inputs, lines, rx_buf_escape>>

\* mutant of TypeAfterUnanswered: the type of the terminal line is kept
TypeAfterUnanswered_Kept(mtype) == mtype

\* src 717-720: message_type after a post-terminal probe that was not answered
TypeAfterUnanswered(mtype) == 0

\* src 699-720: the post-terminal probe; the transfer's result is dropped, so
\* after a failed transfer the buffer still holds what it held before
EscapeProbe ==
    /\ pc = "escape"
    /\ Transmit(BuildEscapeFrame)
    /\ \E ok \in BOOLEAN, r \in EscapeReplies :
          /\ rx_buf_escape' = IF ok THEN r ELSE rx_buf_escape
          /\ escape_received' = ok
          /\ every_reply_bad' = (every_reply_bad /\ ok /\ ~r.ck)
          /\ wired' = IF ok THEN wired \cup {BuildEscapeFrame[0]} ELSE wired
    /\ IF ~EscapeIndexOk(rx_buf_escape')
       THEN /\ Return("Panic")
            /\ message_type' = message_type
            /\ faults' = Append(faults, Len(sent'))
       ELSE /\ pc' = "loop" /\ result' = result
            /\ IF BootloaderAnswered(rx_buf_escape')
               THEN UNCHANGED <<message_type, faults>>
               ELSE /\ message_type' = TypeAfterUnanswered(message_type)
                    /\ faults' = Append(faults, Len(sent'))
    /\ UNCHANGED <<beyond, inputs, lines, line_number, firmware_line_check,
                   firmware_error_counter, tx_buf, acked, terminal_accepted,
                   iterations>>

\* src 791-793 and 850-856: cancel_firmware_upload, then Ok(())
Cancel ==
    /\ pc = "cancel"
    /\ tx_buf' = BuildCancelFrame(tx_buf)
    /\ Transmit(tx_buf')
    /\ \E ok \in BOOLEAN : wired' = IF ok THEN wired \cup {tx_buf'[0]} ELSE wired
    /\ Return("Ok")
    /\ UNCHANGED <<beyond, inputs, lines, loop_state, rx_buf_escape, acked, faults,
                   terminal_accepted, escape_received, loop_history>>

(***************************************************************************)
(* The callers of overwrite_module and Module::wipe_module_error           *)
(***************************************************************************)
\* what the callers and the wipe never touch
upload_state ==
    <<inputs, lines, pc, result, loop_state, tx_buf, rx_buf_escape, acked,
      terminal_accepted, escape_received, loop_history, elsewhere>>

\* const DUMMY_MESSAGE: [u8; 5] = [0; 5]
DUMMY_MESSAGE == ZeroBuf(5)

\* mutant of BuildWipeFrame: the frame is built in a buffer of BOOTMESSAGE_LENGTH bytes
BuildWipeFrame_Short ==
    WithChecksum([WithHeader(ZeroBuf(BOOTMESSAGE_LENGTH), 29)
                      EXCEPT ![6] = 255, ![7] = 255, ![8] = 255])

\* src 410 and 428-437: the bare wipe, an erase frame with software version
\* 255.255.255, built in a fresh [0u8; BOOTMESSAGE_LENGTH + 1]
BuildWipeFrame ==
    WithChecksum([WithHeader(ZeroBuf(BOOTMESSAGE_LENGTH + 1), 29)
                      EXCEPT ![6] = 255, ![7] = 255, ![8] = 255])

\* mutant of NeedsWipe: every failed upload is followed by the wipe
NeedsWipe_AnyError(r) == r \in {"Corrupted", "Untouched"}

\* src 832-834 and 1506-1510: the error that makes the caller wipe the module
NeedsWipe(r) == r = "Corrupted"

\* src 826-842 (update_module) and 1501-1517 (the overwrite command): what the
\* caller c hands upward for the result r of overwrite_module
Reported(c, r) ==
    IF r = "Panic" THEN "panic"
    ELSE IF c = "update_module"
         THEN CASE r = "Ok" -> "Ok(Ok(self))"
                [] r = "Corrupted" -> "Err(FirmwareCorrupted)"
                [] r = "Untouched" -> "Err(FirmwareUntouched)"
         ELSE CASE r = "Ok" -> "success"
                [] r = "Corrupted" -> "err_n_die"
                [] r = "Untouched" -> "err_n_restart_services"

\* overwrite_module has returned to caller c
Resumes(c) ==
    /\ pc = "done"
    /\ caller_pc = "await"
    /\ caller' = c
    /\ caller_pc' = IF NeedsWipe(result) THEN "wipe_dummy" ELSE "report"
    /\ UNCHANGED <<upload_state, history, report, reset_log>>

\* src 826-842: update_module matches on the result
UpdateModuleResumes == Resumes("update_module")

\* src 1501-1517: the overwrite command matches on the result
OverwriteCommandResumes == Resumes("overwrite")

\* src 411-417: the dummy write of wipe_module_error; an error ends the wipe
WipeDummy ==
    /\ caller_pc = "wipe_dummy"
    /\ Send(DUMMY_MESSAGE)
    /\ \E ok \in BOOLEAN :
          IF ok
          THEN caller_pc' = "wipe_assert" /\ faults' = faults
          ELSE caller_pc' = "report" /\ faults' = Append(faults, Len(sent'))
    /\ UNCHANGED <<upload_state, wired, caller, report, reset_log>>

\* self.reset_module(state), src 395-407
ResetModule(state) == reset_log' = Append(reset_log, [state |-> state, at |-> Len(sent)])

\* src 419-422
WipeResetAssert ==
    /\ caller_pc = "wipe_assert"
    /\ ResetModule(TRUE)
    /\ caller_pc' = "wipe_deassert"
    /\ UNCHANGED <<upload_state, history, caller, report>>

\* src 424-426
WipeResetDeassert ==
    /\ caller_pc = "wipe_deassert"
    /\ ResetModule(FALSE)
    /\ caller_pc' = "wipe_frame"
    /\ UNCHANGED <<upload_state, history, caller, report>>

\* src 428-452: the wipe frame is written; then the wipe returns either way
WipeFrame ==
    /\ caller_pc = "wipe_frame"
    /\ Send(BuildWipeFrame)
    /\ \E ok \in BOOLEAN :
          IF ok
          THEN wired' = wired \cup {BuildWipeFrame[0]} /\ faults' = faults
          ELSE wired' = wired /\ faults' = Append(faults, Len(sent'))
    /\ caller_pc' = "report"
    /\ UNCHANGED <<upload_state, caller, report, reset_log>>

\* src 826-842 and 1501-1517: the caller hands the outcome upward
Report ==
    /\ caller_pc = "report"
    /\ report' = Reported(caller, result)
    /\ caller_pc' = "reported"
    /\ UNCHANGED <<upload_state, history, caller, reset_log>>

Next ==
    \/ ReadFile
    \/ Erase
    \/ LoopExit
    \/ DecodePanic
    \/ StatusProbe
    \/ LineFrame
    \/ EscapeProbe
    \/ Cancel
    \/ UpdateModuleResumes
    \/ OverwriteCommandResumes
    \/ WipeDummy
    \/ WipeResetAssert
    \/ WipeResetDeassert
    \/ WipeFrame
    \/ Report

Spec == Init /\ [][Next]_vars

(***************************************************************************)
(* The update policy of Module::update_module (src 805-822)                *)
(***************************************************************************)
\* FirmwareVersion::get_hardware
get_hardware(fw) == SubSeq(fw, 1, 4)

\* the order of Rust slices and arrays: lexicographic, a proper prefix is less
RECURSIVE SliceLess(_, _)
SliceLess(a, b) ==
    IF b = <<>> THEN FALSE
    ELSE IF a = <<>> THEN TRUE
    ELSE IF Head(a) < Head(b) THEN TRUE
    ELSE IF Head(a) > Head(b) THEN FALSE
    ELSE SliceLess(Tail(a), Tail(b))

\* the software version of a module whose firmware was wiped
WipedSoftware == <<255, 255, 255>>

\* src 808: the first filter
HardwareFilter(available, own) == get_hardware(available) = get_hardware(own)

\* src 809-813: the second filter
SoftwareFilter(available, own) ==
    /\ \/ SliceLess(get_software(own), get_software(available))
       \/ get_software(own) = WipedSoftware
    /\ get_software(available) # WipedSoftware

\* mutant of ReduceStep: the smaller version is kept
ReduceStep_Min(acc, item) == IF SliceLess(item.software, acc.software) THEN item ELSE acc

\* src 815: the closure of reduce
ReduceStep(acc, item) == IF SliceLess(acc.software, item.software) THEN item ELSE acc

\* Iterator::reduce over the items left, acc being the accumulator
RECURSIVE Reduce(_, _)
Reduce(acc, items) ==
    IF items = <<>> THEN acc ELSE Reduce(ReduceStep(acc, Head(items)), Tail(items))

\* src 805-815: enumerate, filter, filter, map, reduce; indices count from 0
SelectUpdate(fws, own) ==
    LET enumerated == [k \in 1..Len(fws) |-> [index |-> k - 1, version |-> fws[k]]]
        PassesHardware(e) == HardwareFilter(e.version, own)
        PassesSoftware(e) == SoftwareFilter(e.version, own)
        filtered == SelectSeq(SelectSeq(enumerated, PassesHardware), PassesSoftware)
        mapped == [k \in 1..Len(filtered) |->
                      [some |-> TRUE, index |-> filtered[k].index,
                       software |-> get_software(filtered[k].version)]]
    IN  IF mapped = <<>> THEN NoUpdate ELSE Reduce(Head(mapped), Tail(mapped))

\* firmwares.get(index).unwrap()
FirmwareAt(fws, index) == fws[index + 1]

\* what update_module leaves alone before the upload starts
policy_frame ==
    <<inputs, lines, pc, result, loop_state, tx_buf, rx_buf_escape, history,
      loop_history, caller, caller_pc, reset_log, info_state, name_state,
      pair_state, process_state, reply_state, transport_state,
      frame_state>>

\* src 805-816: the filter chain is evaluated
Select ==
    /\ policy_pc = "select"
    /\ update' = SelectUpdate(firmwares, firmware)
    /\ policy_pc' = IF update'.some THEN "dispatch" ELSE "no_update"
    /\ UNCHANGED <<firmware, firmwares, dispatched, report>>
    /\ UNCHANGED policy_frame

\* src 824-826: overwrite_module is called with the version selected
Dispatch ==
    /\ policy_pc = "dispatch"
    /\ dispatched' = FirmwareAt(firmwares, update.index)
    /\ policy_pc' = "uploading"
    /\ UNCHANGED <<firmware, firmwares, update, report>>
    /\ UNCHANGED policy_frame

\* src 843-846: no candidate is left, Ok(Err(self))
ReportNoUpdate ==
    /\ policy_pc = "no_update"
    /\ report' = "Ok(Err(self))"
    /\ policy_pc' = "returned"
    /\ UNCHANGED <<firmware, firmwares, update, dispatched>>
    /\ UNCHANGED policy_frame

\* the hardware versions and the software versions of the versions explored
Hardwares == {<<20, 10, 1, 5>>, <<20, 10, 2, 5>>}
Softwares == {<<0, 0, 9>>, <<0, 1, 0>>, <<1, 0, 0>>, WipedSoftware}
Versions == {h \o w : h \in Hardwares, w \in Softwares}

\* the candidate lists explored: every list of at most MaxFirmwares versions
CandidateLists == UNION {[1..n -> Versions] : n \in 0..MaxFirmwares}

InitPolicy ==
    /\ UploadIdle
    /\ NoHistory
    /\ ProcessIdle
    /\ ReplyIdle
    /\ TransportIdle
    /\ FrameIdle
    /\ InfoIdle
    /\ NameIdle
    /\ PairIdle
    /\ firmware \in Versions
    /\ firmwares \in CandidateLists
    /\ update = NoUpdate
    /\ policy_pc = "select"
    /\ dispatched = <<>>

NextPolicy ==
    \/ Select
    \/ Dispatch
    \/ ReportNoUpdate

SpecPolicy == InitPolicy /\ [][NextPolicy]_vars

(***************************************************************************)
(* Module::new and Module::get_module_info (src 180-392)                   *)
(***************************************************************************)
Controllers == {"ModulineIV", "ModulineMini", "ModulineDisplay"}

\* src 185-322: the SPI device of each slot, per controller
SpiDevices ==
    [ModulineIV |-> <<"/dev/spidev1.0", "/dev/spidev1.1", "/dev/spidev2.0",
                      "/dev/spidev2.1", "/dev/spidev2.2", "/dev/spidev2.3",
                      "/dev/spidev0.0", "/dev/spidev0.1">>,
     ModulineMini |-> <<"/dev/spidev1.0", "/dev/spidev1.1", "/dev/spidev2.0",
                        "/dev/spidev2.1">>,
     ModulineDisplay |-> <<"/dev/spidev1.0", "/dev/spidev1.1">>]

\* the match on slot has an arm for s
ValidSlot(c, s) == s \in 1..Len(SpiDevices[c])

\* mutant of SpiDevice: every slot opens the device of slot 1
SpiDevice_OfFirstSlot(c, s) == SpiDevices[c][1]

\* src 185-322: the device File::open is called on for slot s
SpiDevice(c, s) == SpiDevices[c][s]

\* src 366-369
BuildIdentifyFrame == WithChecksum(WithHeader(ZeroBuf(BOOTMESSAGE_LENGTH + 1), 9))

\* u32::from_be_bytes
from_be_bytes(b) == ((b[1] * 256 + b[2]) * 256 + b[3]) * 256 + b[4]

\* buf.get(from..to).unwrap(), as a sequence
Slice(buf, from, to) == [k \in 1..(to - from) |-> buf[from + k - 1]]

\* src 379-383: the reply is turned down
Rejected(rx) ==
    \/ rx[BOOTMESSAGE_LENGTH - 1] # calculate_checksum(rx, BOOTMESSAGE_LENGTH - 1)
    \/ (rx[0] # 9 /\ rx[2] # 9)

\* the identify replies explored: bytes 0 and 2, the 19 payload bytes 6..24
\* and a checksum that is right or off by one
IdentifyReply(b0, b2, payload, ck) ==
    LET body == [i \in 0..BOOTMESSAGE_LENGTH |->
                    IF i = 0 THEN b0
                    ELSE IF i = 2 THEN b2
                    ELSE IF i \in 6..24 THEN payload[i - 5]
                    ELSE 0]
        sum == calculate_checksum(body, BOOTMESSAGE_LENGTH - 1)
    IN  [body EXCEPT ![BOOTMESSAGE_LENGTH - 1] = IF ck THEN sum ELSE (sum + 1) % 256]

IdentifyPayloads ==
    {<<20, 10, 1, 5, 0, 0, 9>> \o <<0, 0, 1, 2>> \o <<0, 0, 0, 3>> \o <<4, 0, 0, 0>>,
     <<20, 10, 2, 5, 255, 255, 255>> \o <<127, 255, 255, 255>> \o <<1, 2, 3, 4>> \o <<0, 0, 0, 0>>,
     <<0, 0, 0, 0, 0, 0, 0>> \o <<0, 0, 0, 0>> \o <<0, 0, 0, 0>> \o <<0, 0, 0, 0>>}

IdentifyReplies ==
    {IdentifyReply(b0, b2, p, ck) :
        b0 \in {9, 0}, b2 \in {9, 0}, p \in IdentifyPayloads, ck \in BOOLEAN}

\* what Module::new leaves alone
info_frame ==
    <<inputs, lines, pc, result, loop_state, tx_buf, rx_buf_escape, acked,
      terminal_accepted, escape_received, loop_history, caller, caller_pc, report,
      firmwares, update, policy_pc, dispatched, controller, slot, name_state,
      pair_state, process_state, reply_state, transport_state,
      frame_state>>

identity == <<firmware, manufacturer, qr_front, qr_back>>

\* src 183-331: the SPI device and the interrupt line are opened and the
\* device configured; any failure, or a slot the controller lacks, gives None
Open ==
    /\ info_pc = "new"
    /\ \E ok \in BOOLEAN :
          IF ok /\ ValidSlot(controller, slot)
          THEN spidev' = SpiDevice(controller, slot) /\ info_pc' = "dummy"
          ELSE spidev' = spidev /\ info_pc' = "none"
    /\ UNCHANGED <<info_frame, identity, rx_buf, sent, wired, faults, reset_log>>

\* src 349-355: the dummy write; an error gives None
InfoDummy ==
    /\ info_pc = "dummy"
    /\ Send(DUMMY_MESSAGE)
    /\ \E ok \in BOOLEAN :
          IF ok
          THEN info_pc' = "assert" /\ faults' = faults
          ELSE info_pc' = "none" /\ faults' = Append(faults, Len(sent'))
    /\ UNCHANGED <<info_frame, identity, rx_buf, spidev, wired, reset_log>>

\* src 357-360
InfoResetAssert ==
    /\ info_pc = "assert"
    /\ ResetModule(TRUE)
    /\ info_pc' = "deassert"
    /\ UNCHANGED <<info_frame, identity, rx_buf, spidev, sent, wired, faults>>

\* src 362-364
InfoResetDeassert ==
    /\ info_pc = "deassert"
    /\ ResetModule(FALSE)
    /\ info_pc' = "identify"
    /\ UNCHANGED <<info_frame, identity, rx_buf, spidev, sent, wired, faults>>

\* mutant of AfterRejection: the query starts over
AfterRejection_Retry == "dummy"

\* src 382: return None
AfterRejection == "none"

\* src 366-391: the identify exchange and what is made of the reply
Identify ==
    /\ info_pc = "identify"
    /\ Send(BuildIdentifyFrame)
    /\ \E ok \in BOOLEAN, r \in IdentifyReplies :
          IF ~ok
          THEN /\ info_pc' = "none"
               /\ faults' = Append(faults, Len(sent'))
               /\ UNCHANGED <<identity, rx_buf, wired>>
          ELSE /\ rx_buf' = r
               /\ wired' = wired \cup {BuildIdentifyFrame[0]}
               /\ IF Rejected(r)
                  THEN /\ info_pc' = AfterRejection
                       /\ faults' = Append(faults, Len(sent'))
                       /\ UNCHANGED identity
                  ELSE /\ info_pc' = "some"
                       /\ faults' = faults
                       /\ firmware' = Slice(r, 6, 13)
                       /\ manufacturer' = from_be_bytes(Slice(r, 13, 17))
                       /\ qr_front' = from_be_bytes(Slice(r, 17, 21))
                       /\ qr_back' = from_be_bytes(Slice(r, 21, 25))
    /\ UNCHANGED <<info_frame, spidev, reset_log>>

\* src 332-342: the session as Module::new builds it, before the query
InitInfo ==
    /\ UploadIdle
    /\ NoHistory
    /\ ProcessIdle
    /\ ReplyIdle
    /\ TransportIdle
    /\ FrameIdle
    /\ PolicyIdle
    /\ NameIdle
    /\ PairIdle
    /\ controller \in Controllers
    /\ slot \in 0..MaxSlot
    /\ spidev = ""
    /\ info_pc = "new"
    /\ rx_buf = ZeroBuf(BOOTMESSAGE_LENGTH + 1)
    /\ firmware = <<0, 0, 0, 0, 0, 0, 0>>
    /\ manufacturer = 0
    /\ qr_front = 0
    /\ qr_back = 0

NextInfo ==
    \/ Open
    \/ InfoDummy
    \/ InfoResetAssert
    \/ InfoResetDeassert
    \/ Identify

SpecInfo == InitInfo /\ [][NextInfo]_vars

(***************************************************************************)
(* FirmwareVersion::as_filename and FirmwareVersion::from_filename         *)
(***************************************************************************)
DecimalChars == <<"0", "1", "2", "3", "4", "5", "6", "7", "8", "9">>

IsDecimalChar(c) == \E i \in 1..10 : DecimalChars[i] = c

DecimalVal(c) == (CHOOSE i \in 1..10 : DecimalChars[i] = c) - 1

\* format!("{}", n) of a u8: decimal, no sign, no leading zero
RECURSIVE FormatU8(_)
FormatU8(n) ==
    IF n < 10 THEN <<DecimalChars[n + 1]>>
    ELSE FormatU8(n \div 10) \o <<DecimalChars[(n % 10) + 1]>>

\* the digits of str::parse::<u8>: what is left after one leading '+'
Unsigned(str) == IF Len(str) >= 1 /\ str[1] = "+" THEN Tail(str) ELSE str

\* the value of a string of decimal digits, or more than U8_MAX once it has
\* overflowed a u8 (checked_mul / checked_add fail)
RECURSIVE DecimalValue(_)
DecimalValue(digits) ==
    IF Len(digits) = 0 THEN 0
    ELSE LET high == DecimalValue(SubSeq(digits, 1, Len(digits) - 1))
             value == high * 10 + DecimalVal(digits[Len(digits)])
         IN  IF high > U8_MAX \/ value > U8_MAX THEN U8_MAX + 1 ELSE value

\* num.parse::<u8>() is Ok: digits only, at least one, no overflow
ParseU8IsOk(str) ==
    /\ Len(Unsigned(str)) >= 1
    /\ \A i \in 1..Len(Unsigned(str)) : IsDecimalChar(Unsigned(str)[i])
    /\ DecimalValue(Unsigned(str)) <= U8_MAX

ParseU8(str) == DecimalValue(Unsigned(str))

\* str::split(sep).collect()
RECURSIVE SplitOn(_, _)
SplitOn(str, sep) ==
    IF \A i \in 1..Len(str) : str[i] # sep THEN <<str>>
    ELSE LET i == CHOOSE k \in 1..Len(str) :
                    str[k] = sep /\ \A j \in 1..(k - 1) : str[j] # sep
         IN  <<SubSeq(str, 1, i - 1)>> \o SplitOn(SubSeq(str, i + 1, Len(str)), sep)

\* mutant of FieldSeparator: the fields are written with dots
FieldSeparator_Dot == "."

\* src 87: the separator of format!("{}-{}-{}-{}-{}-{}-{}")
FieldSeparator == "-"

\* FirmwareVersion::as_string, src 84-95
RECURSIVE as_string(_)
as_string(fw) ==
    IF Len(fw) = 1 THEN FormatU8(fw[1])
    ELSE FormatU8(fw[1]) \o <<FieldSeparator>> \o as_string(Tail(fw))

\* FirmwareVersion::as_filename, src 98-100
as_filename(fw) == as_string(fw) \o <<".", "s", "r", "e", "c">>

\* FirmwareVersion::from_filename, src 55-70: the text before the first dot is
\* split at '-'; an 8th part or a part that does not parse gives None; parts
\* that are missing stay 0
from_filename(str) ==
    LET no_extension == Head(SplitOn(str, "."))
        numbers == SplitOn(no_extension, "-")
    IN  IF \E i \in 1..Len(numbers) : i > 7 \/ ~ParseU8IsOk(numbers[i])
        THEN NoVersion
        ELSE [some |-> TRUE,
              firmware |-> [k \in 1..7 |->
                               IF k <= Len(numbers) THEN ParseU8(numbers[k]) ELSE 0]]

\* what the conversions leave alone
name_frame ==
    <<inputs, lines, pc, result, loop_state, tx_buf, rx_buf_escape, history,
      loop_history, caller_state, policy_state, info_state, pair_state,
      process_state, reply_state, transport_state,
      frame_state>>

\* v.as_filename()
FormatName ==
    /\ name_pc = "format"
    /\ name' = as_filename(version)
    /\ name_pc' = "parse"
    /\ UNCHANGED <<version, parsed, name_frame>>

\* FirmwareVersion::from_filename(name)
ParseName ==
    /\ name_pc = "parse"
    /\ parsed' = from_filename(name)
    /\ name_pc' = "done"
    /\ UNCHANGED <<version, name, name_frame>>

\* the versions converted: every byte value at every position of two
\* versions, and every version over three bytes of one, two and three digits
VersionsExplored ==
    {[base EXCEPT ![k] = b] :
        base \in {SessionFirmware, <<255, 255, 255, 255, 255, 255, 255>>},
        k \in 1..7, b \in 0..U8_MAX}
    \cup [1..7 -> {0, 10, U8_MAX}]

InitName ==
    /\ UploadIdle
    /\ NoHistory
    /\ ProcessIdle
    /\ ReplyIdle
    /\ TransportIdle
    /\ FrameIdle
    /\ PolicyIdle
    /\ InfoIdle
    /\ PairIdle
    /\ firmware = SessionFirmware
    /\ version \in VersionsExplored
    /\ name = <<>>
    /\ parsed = NoVersion
    /\ name_pc = "format"

NextName ==
    \/ FormatName
    \/ ParseName

SpecName == InitName /\ [][NextName]_vars

(***************************************************************************)
(* Two sessions at once: the tasks get_modules and update_all_modules      *)
(* spawn.  A session is a value: its program state is a record, and one    *)
(* step of Module::new or of overwrite_module is a function of that record *)
(* and of what its SPI device answers.                                     *)
(***************************************************************************)
\* src 397, 402: format!("/sys/class/leds/ResetM-{}/brightness", self.slot)
ResetPath(s) ==
    <<"/sys/class/leds/ResetM-">> \o FormatU8(s) \o <<"/brightness">>

\* the Module value of src 332-342, about to open its devices, that will be
\* given the firmware file text
NewSession(text) ==
    [pc |-> "new", result |-> "none", content |-> text, lines |-> <<>>,
     line_number |-> 0, firmware_line_check |-> USIZE_MAX,
     firmware_error_counter |-> 0, message_type |-> 0,
     tx_buf |-> ZeroBuf(BOOTMESSAGE_LENGTH + 1), rx_buf_escape |-> ZeroEscapeReply]

\* the outcome of a step: the new program state, the frame written to the
\* session's SPI device and the value written to its reset file, if any
Quiet(s) == [next |-> s, frames |-> <<>>, resets |-> <<>>]
Emit(s, buf) == [next |-> s, frames |-> <<[len |-> BufLen(buf), bytes |-> buf]>>, resets |-> <<>>]
Pulse(s, state) == [next |-> s, frames |-> <<>>, resets |-> <<state>>]

Returned(s, r) == [s EXCEPT !.pc = "done", !.result = r]

\* src 727-731, 757-771, 774-786, as LineFailed
SessionLineFailed(s) ==
    LET swapped == [s EXCEPT !.line_number = s.firmware_line_check,
                             !.firmware_line_check = s.line_number,
                             !.message_type = 0,
                             !.firmware_error_counter = s.firmware_error_counter + 1]
    IN  IF CapExceeded(swapped.firmware_error_counter)
        THEN Returned(swapped, CapFailure)
        ELSE [swapped EXCEPT !.pc = "loop"]

\* src 620-624, 628-632, as ProbeFailed
SessionProbeFailed(s) ==
    [s EXCEPT !.line_number = s.firmware_line_check,
              !.firmware_line_check = s.line_number,
              !.message_type = 0,
              !.firmware_error_counter = s.firmware_error_counter + 1,
              !.pc = "loop"]

\* src 690-726, as LineAccepted
SessionLineAccepted(s, mtype) ==
    LET n == AcceptedLineNumber(s.firmware_error_counter, s.line_number,
                                s.firmware_line_check)
        c == AcceptedLineCheck(s.firmware_error_counter, s.line_number,
                               s.firmware_line_check)
    IN  IF mtype = 7
        THEN [s EXCEPT !.line_number = n, !.firmware_line_check = c,
                       !.message_type = mtype, !.pc = "escape"]
        ELSE [s EXCEPT !.line_number = NextLine(n), !.firmware_line_check = c,
                       !.message_type = mtype,
                       !.firmware_error_counter = ErrorsAfterSuccess(s.firmware_error_counter),
                       !.pc = "loop"]

\* src 636-789, as LineFrame
SessionLineFrame(s, in) ==
    LET mtype == TypeOf(s.lines, s.line_number)
        line  == LineAt(s.lines, s.line_number)
        count == CopyCount(LengthOf(s.lines, s.line_number))
        tx    == BuildLineFrame(s.tx_buf, s.line_number, mtype, line, count)
        built == [s EXCEPT !.tx_buf = tx]
    IN  IF ~PayloadOk(s.tx_buf, line, count)
        THEN Quiet(Returned(s, "Panic"))
        ELSE Emit(IF ~in.ok THEN SessionLineFailed(built)
                  ELSE IF s.firmware_line_check = USIZE_MAX
                       THEN [built EXCEPT !.line_number = s.line_number + 1,
                                          !.firmware_line_check = 0,
                                          !.message_type = mtype,
                                          !.pc = "loop"]
                       ELSE IF Acceptable(in.r, s.firmware_line_check)
                            THEN SessionLineAccepted(built, mtype)
                            ELSE SessionLineFailed(built),
                  tx)

\* src 699-720, as EscapeProbe
SessionEscapeProbe(s, in) ==
    LET rx == IF in.ok THEN in.e ELSE s.rx_buf_escape
        got == [s EXCEPT !.rx_buf_escape = rx]
    IN  Emit(IF ~EscapeIndexOk(rx) THEN Returned(got, "Panic")
             ELSE IF BootloaderAnswered(rx) THEN [got EXCEPT !.pc = "loop"]
             ELSE [got EXCEPT !.pc = "loop",
                              !.message_type = TypeAfterUnanswered(s.message_type)],
             BuildEscapeFrame)

\* one step of Module::new (src 180-392) or of overwrite_module (src 507-794)
\* by the session of slot sl of controller c, in being what its device gives
SessionStep(c, sl, s, in) ==
    CASE s.pc = "new" ->
            Quiet([s EXCEPT !.pc = IF ValidSlot(c, sl) THEN "dummy" ELSE "none"])
      [] s.pc = "dummy" ->
            Emit([s EXCEPT !.pc = IF in.ok THEN "assert" ELSE "none"], DUMMY_MESSAGE)
      [] s.pc = "assert" -> Pulse([s EXCEPT !.pc = "deassert"], TRUE)
      [] s.pc = "deassert" -> Pulse([s EXCEPT !.pc = "identify"], FALSE)
      [] s.pc = "identify" ->
            Emit([s EXCEPT !.pc = IF ~in.ok THEN "none"
                                  ELSE IF Rejected(in.id) THEN AfterRejection
                                  ELSE "some"],
                 BuildIdentifyFrame)
      [] s.pc = "start" ->
            LET ls == Split(s.content)
            IN  Quiet(IF TooFewLines(ls) THEN Returned([s EXCEPT !.lines = ls], "Untouched")
                      ELSE [s EXCEPT !.lines = ls, !.pc = "erase"])
      [] s.pc = "erase" ->
            LET tx == BuildEraseFrame(s.tx_buf, NewFirmware)
                built == [s EXCEPT !.tx_buf = tx]
            IN  Emit(IF in.ok THEN [built EXCEPT !.pc = "loop"]
                     ELSE Returned(built, EraseFailure),
                     tx)
      [] s.pc = "loop" /\ ~LoopCondition(s.message_type) ->
            Quiet([s EXCEPT !.pc = "cancel"])
      [] s.pc = "loop" /\ LoopCondition(s.message_type)
            /\ ~DecodeOk(s.lines, s.line_number) ->
            Quiet(Returned(s, "Panic"))
      [] s.pc = "loop" /\ LoopCondition(s.message_type)
            /\ DecodeOk(s.lines, s.line_number)
            /\ NeedsProbe(TypeOf(s.lines, s.line_number), s.firmware_line_check,
                          s.line_number) ->
            LET tx == BuildProbeFrame(s.tx_buf)
                built == [s EXCEPT !.tx_buf = tx]
            IN  Emit(IF in.ok /\ Acceptable(in.r, s.firmware_line_check)
                     THEN [built EXCEPT !.message_type = TypeOf(s.lines, s.line_number),
                                        !.pc = "line"]
                     ELSE SessionProbeFailed(built),
                     tx)
      [] s.pc = "line"
            \/ /\ s.pc = "loop" /\ LoopCondition(s.message_type)
               /\ DecodeOk(s.lines, s.line_number)
               /\ ~NeedsProbe(TypeOf(s.lines, s.line_number), s.firmware_line_check,
                              s.line_number) ->
            SessionLineFrame(s, in)
      [] s.pc = "escape" -> SessionEscapeProbe(s, in)
      [] s.pc = "cancel" ->
            LET tx == BuildCancelFrame(s.tx_buf)
            IN  Emit(Returned([s EXCEPT !.tx_buf = tx], "Ok"), tx)

\* the line index a line frame carries at bytes 6-7 (big-endian)
FrameLine(f) == f.bytes[6] * 256 + f.bytes[7]

\* the identity a simulated module reports
PeerIdentity == <<20, 10, 1, 5, 0, 0, 9>> \o <<0, 0, 1, 2>> \o <<0, 0, 0, 3>> \o <<4, 0, 0, 0>>

\* the line index of the last line frame in log, 0 when there is none
LastLine(log) ==
    LET at == {i \in 1..Len(log) : /\ log[i].len = BOOTMESSAGE_LENGTH + 1
                                   /\ log[i].bytes[0] = 39}
    IN  IF at = {} THEN 0
        ELSE FrameLine(log[CHOOSE i \in at : \A j \in at : j <= i])

\* a simulated module behind one SPI device: what it answers to the next
\* transfer, given the frames log it has received on that device.  It
\* acknowledges the last line frame it has received; the answers whose
\* positions are in bad carry a wrong checksum.
PeerInput(bad, log) ==
    LET good == (Len(log) + 1) \notin bad
    IN  [ok |-> TRUE,
         r  |-> [ck |-> good, line |-> LastLine(log), b8 |-> 1],
         e  |-> [b1 |-> 0, ck |-> good, b6 |-> BOOTLOADER_ANSWER],
         id |-> IdentifyReply(9, 9, PeerIdentity, good)]

\* the session has returned from Module::new with None, or from overwrite_module
Finished(s) == s.pc \in {"none", "done"}

\* the whole run of one session on a device nothing else writes to: what it
\* has written when it ends, and how it ends
RECURSIVE RunAlone(_, _, _, _, _, _)
RunAlone(c, sl, s, bad, log, resets) ==
    IF Finished(s) THEN [session |-> s, frames |-> log, resets |-> resets]
    ELSE IF s.pc = "some"
         THEN RunAlone(c, sl, [s EXCEPT !.pc = "start"], bad, log, resets)
         ELSE LET out == SessionStep(c, sl, s, PeerInput(bad, log))
              IN  RunAlone(c, sl, out.next, bad, log \o out.frames, resets \o out.resets)

\* the slots of controller c: get_modules runs over 1..controller as usize - 1
SlotsOf(c) == 1..Len(SpiDevices[c])

\* the positions of the answers with a wrong checksum, per simulated module
PeerFaults == {{}, {5}, {2}}

\* the firmware file each of the two sessions is given
PairImages == <<ImageS1, ImageShort>>

\* the session of slot sl takes one step on its own devices
Advance(sl) ==
    LET dev == SpiDevice(pair.controller, sl)
        out == SessionStep(pair.controller, sl, sess[sl],
                           PeerInput(pair.peers[dev], bus[dev]))
    IN  /\ sess' = [sess EXCEPT ![sl] = out.next]
        /\ bus' = [bus EXCEPT ![dev] = bus[dev] \o out.frames]
        /\ leds' = [leds EXCEPT ![ResetPath(sl)] = leds[ResetPath(sl)] \o out.resets]

pair_frame ==
    <<inputs, lines, pc, result, loop_state, tx_buf, rx_buf_escape, history,
      loop_history, caller_state, policy_state, info_state, name_state,
      process_state, reply_state, transport_state,
      frame_state>>

\* src 998-1004: a task spawned by get_modules runs Module::new
PairConstruct ==
    /\ \E sl \in DOMAIN sess :
          /\ sess[sl].pc \in {"new", "dummy", "assert", "deassert", "identify"}
          /\ Advance(sl)
    /\ UNCHANGED <<pair, pair_frame>>

\* src 1005-1010 and 1159-1169: every task of get_modules has been joined;
\* update_all_modules spawns one task per module found
PairSpawnUpdates ==
    /\ \A sl \in DOMAIN sess : sess[sl].pc \in {"some", "none"}
    /\ \E sl \in DOMAIN sess : sess[sl].pc = "some"
    /\ sess' = [sl \in DOMAIN sess |->
                   IF sess[sl].pc = "some" THEN [sess[sl] EXCEPT !.pc = "start"]
                   ELSE sess[sl]]
    /\ UNCHANGED <<pair, bus, leds, pair_frame>>

\* src 1163-1167: a task spawned by update_all_modules runs the upload
PairUpload ==
    /\ \E sl \in DOMAIN sess :
          /\ sess[sl].pc \in {"start", "erase", "loop", "line", "escape", "cancel"}
          /\ Advance(sl)
    /\ UNCHANGED <<pair, pair_frame>>

InitPair ==
    /\ UploadIdle
    /\ NoHistory
    /\ ProcessIdle
    /\ ReplyIdle
    /\ TransportIdle
    /\ FrameIdle
    /\ PolicyIdle
    /\ InfoIdle
    /\ NameIdle
    /\ firmware = SessionFirmware
    /\ \E c \in Controllers, a \in 1..MaxSlot, b \in 1..MaxSlot, fa \in PeerFaults, fb \in PeerFaults :
          /\ a < b
          /\ {a, b} \subseteq SlotsOf(c)
          /\ pair = [controller |-> c,
                     slots |-> <<a, b>>,
                     peers |-> [d \in {SpiDevices[c][k] : k \in SlotsOf(c)} |->
                                   IF d = SpiDevice(c, a) THEN fa
                                   ELSE IF d = SpiDevice(c, b) THEN fb
                                   ELSE {}],
                     alone |-> [sl \in {a, b} |->
                                   RunAlone(c, sl,
                                            NewSession(PairImages[IF sl = a THEN 1 ELSE 2]),
                                            IF sl = a THEN fa ELSE fb, <<>>, <<>>)]]
          /\ sess = [sl \in {a, b} |-> NewSession(PairImages[IF sl = a THEN 1 ELSE 2])]
          /\ bus = [d \in {SpiDevices[c][k] : k \in SlotsOf(c)} |-> <<>>]
          /\ leds = [f \in {ResetPath(k) : k \in SlotsOf(c)} |-> <<>>]

NextPair ==
    \/ PairConstruct
    \/ PairSpawnUpdates
    \/ PairUpload

SpecPair == InitPair /\ [][NextPair]_vars

(***************************************************************************)
(* The process: main (src 1212-1520), update_all_modules,                  *)
(* update_one_module, the exit functions and the SIGINT handler.  The       *)
(* handler runs on a thread of its own, next to the main thread and the    *)
(* sessions; std::process::exit on either thread ends the process.         *)
(***************************************************************************)
\* most sessions an update of all modules is run with
MaxModules == 2

\* what main, its exit functions and the handler never touch
process_frame ==
    <<inputs, lines, pc, result, loop_state, tx_buf, rx_buf_escape, history,
      loop_history, caller_state, policy_state, info_state, name_state, pair_state,
      reply_state, transport_state,
      frame_state>>

\* the status a parent reads after exit(code): the low byte of the code
ExitStatus(code) == code % 256

\* the code of a process whose main thread panicked: 101 when the panic
\* unwinds, 134 (SIGABRT) in a build with panic = "abort"
PanicCodes == {101, 134}

\* src 826-847: what update_module returns ("panic" when the session panicked)
UpdateOutcomes ==
    {Reported("update_module", r) : r \in {"Ok", "Corrupted", "Untouched", "Panic"}}
        \cup {"Ok(Err(self))"}

\* what overwrite_module returns to the overwrite command
OverwriteOutcomes == {"Ok", "Corrupted", "Untouched", "Panic"}

Outcomes(cmd) == IF cmd = "overwrite" THEN OverwriteOutcomes ELSE UpdateOutcomes

\* src 1173-1190: one upload result is matched
TallyStep(acc, res) ==
    CASE res = "Ok(Ok(self))" -> [acc EXCEPT !.new_modules = @ + 1]
      [] res = "Err(FirmwareCorrupted)" -> [acc EXCEPT !.firmware_corrupted = TRUE]
      [] OTHER -> acc

\* src 1156-1190: `for result in upload_results`
RECURSIVE Tally(_)
Tally(upload_results) ==
    IF upload_results = <<>>
    THEN [new_modules |-> 0, firmware_corrupted |-> FALSE]
    ELSE TallyStep(Tally(SubSeq(upload_results, 1, Len(upload_results) - 1)),
                   upload_results[Len(upload_results)])

\* src 1170-1172 and 1204-1208: how update_all_modules leaves; a session that
\* panicked makes join_next().unwrap().unwrap() panic
UpdateAllExit(upload_results) ==
    IF \E i \in 1..Len(upload_results) : upload_results[i] = "panic" THEN "panic"
    ELSE IF Tally(upload_results).firmware_corrupted THEN "err_n_die"
    ELSE "success"

\* src 1112-1144: how update_one_module leaves
UpdateOneExit(res) ==
    CASE res = "Ok(Ok(self))" -> "success"
      [] res = "Err(FirmwareCorrupted)" -> "err_n_die"
      [] res = "Err(FirmwareUntouched)" -> "err_n_restart_services"
      [] res = "Ok(Err(self))" -> "err_n_restart_services"
      [] res = "panic" -> "panic"

\* src 1327-1519: the exit function main ends in
ExitOf(cmd, results) ==
    CASE cmd = "scan" -> "success"
      [] cmd = "update_all" -> UpdateAllExit(results)
      [] cmd = "update_one" -> UpdateOneExit(results[1])
      [] cmd = "overwrite" -> Reported("overwrite", results[1])

\* src 932, 950, 956: the argument of exit in each exit function
ExitArgument(fn) == IF fn = "success" THEN 0 ELSE -1

\* src 919-931 and 937-949: the exit function starts the services
RestartsServices(fn) == fn \in {"success", "err_n_restart_services"}

Running == exit_code = <<>>

Systemctl(verb, unit) == Append(systemctl, <<verb, unit>>)

\* the main thread calls the exit function fn
Enter(fn) ==
    /\ exit_fn' = fn
    /\ main_pc' = IF RestartsServices(fn) THEN "start_nodered" ELSE "exit"

\* src 1256-1261
StopNodered ==
    /\ Running
    /\ main_pc = "stop_nodered"
    /\ systemctl' = IF nodered THEN Systemctl("stop", "nodered") ELSE systemctl
    /\ main_pc' = "stop_simulink"
    /\ UNCHANGED <<process_frame, sigint_at, nodered, simulink, command, tasks, exit_fn, handler_pc,
                   exit_code>>

\* src 1263-1268
StopSimulink ==
    /\ Running
    /\ main_pc = "stop_simulink"
    /\ systemctl' = IF simulink THEN Systemctl("stop", "go-simulink") ELSE systemctl
    /\ main_pc' = "set_handler"
    /\ UNCHANGED <<process_frame, sigint_at, nodered, simulink, command, tasks, exit_fn, handler_pc,
                   exit_code>>

\* src 1270-1276: ctrlc::set_handler; when it fails main restarts the services
SetHandler ==
    /\ Running
    /\ main_pc = "set_handler"
    /\ \E ok \in BOOLEAN :
          IF ok
          THEN handler_pc' = "armed" /\ main_pc' = "command" /\ exit_fn' = exit_fn
          ELSE handler_pc' = handler_pc /\ Enter("err_n_restart_services")
    /\ UNCHANGED <<process_frame, sigint_at, nodered, simulink, command, tasks, systemctl, exit_code>>

\* src 1302-1485: the command and its arguments are read; a wrong argument, a
\* failed prompt or a slot without module ends in err_n_restart_services; the
\* sessions of an update or of an overwrite start
ReadCommand ==
    /\ Running
    /\ main_pc = "command"
    /\ \/ /\ Enter("err_n_restart_services")
          /\ UNCHANGED <<command, tasks>>
       \/ /\ command' = "scan"
          /\ tasks' = <<>>
          /\ Enter(ExitOf("scan", <<>>))
       \/ /\ \E n \in 0..MaxModules :
                tasks' = [i \in 1..n |-> "running"]
          /\ command' = "update_all"
          /\ main_pc' = "await"
          /\ exit_fn' = exit_fn
       \/ /\ command' \in {"update_one", "overwrite"}
          /\ tasks' = <<"running">>
          /\ main_pc' = "await"
          /\ exit_fn' = exit_fn
    /\ UNCHANGED <<process_frame, sigint_at, nodered, simulink, handler_pc, systemctl, exit_code>>

\* a session of the command returns (or panics)
SessionEnds ==
    /\ Running
    /\ main_pc = "await"
    /\ \E i \in 1..Len(tasks), o \in Outcomes(command) :
          /\ tasks[i] = "running"
          /\ tasks' = [tasks EXCEPT ![i] = o]
    /\ UNCHANGED <<process_frame, sigint_at, nodered, simulink, command, main_pc, exit_fn,
                   handler_pc, systemctl, exit_code>>

\* src 1170-1172: join_next hands over the sessions in the order they end,
\* and the second unwrap panics on the first one that panicked, whatever the
\* other sessions are doing
JoinPanics == \E i \in 1..Len(tasks) : tasks[i] = "panic"

\* src 1170-1208, 1112-1144, 1486-1518: every session has been awaited, or a
\* panicked one has been; the results decide the exit function
Join ==
    /\ Running
    /\ main_pc = "await"
    /\ \/ \A i \in 1..Len(tasks) : tasks[i] # "running"
       \/ JoinPanics
    /\ Enter(ExitOf(command, tasks))
    /\ UNCHANGED <<process_frame, sigint_at, nodered, simulink, command, tasks, handler_pc,
                   systemctl, exit_code>>

\* src 919-924 and 937-942, on the main thread
MainStartNodered ==
    /\ Running
    /\ main_pc = "start_nodered"
    /\ systemctl' = IF nodered THEN Systemctl("start", "nodered") ELSE systemctl
    /\ main_pc' = "start_simulink"
    /\ UNCHANGED <<process_frame, sigint_at, nodered, simulink, command, tasks, exit_fn, handler_pc,
                   exit_code>>

\* src 926-931 and 944-949, on the main thread
MainStartSimulink ==
    /\ Running
    /\ main_pc = "start_simulink"
    /\ systemctl' = IF simulink THEN Systemctl("start", "go-simulink") ELSE systemctl
    /\ main_pc' = "exit"
    /\ UNCHANGED <<process_frame, sigint_at, nodered, simulink, command, tasks, exit_fn, handler_pc,
                   exit_code>>

\* src 932, 950, 956: exit on the main thread, or the panic of the main thread
MainExit ==
    /\ Running
    /\ main_pc = "exit"
    /\ IF exit_fn = "panic"
       THEN \E code \in PanicCodes : exit_code' = <<code>>
       ELSE exit_code' = <<ExitArgument(exit_fn)>>
    /\ main_pc' = "exited"
    /\ UNCHANGED <<process_frame, sigint_at, nodered, simulink, command, tasks, exit_fn, handler_pc,
                   systemctl>>

\* SIGINT arrives: the handler thread wakes up and calls
\* err_n_restart_services(nodered, simulink) (src 1270)
Sigint ==
    /\ Running
    /\ handler_pc = "armed"
    /\ handler_pc' = "start_nodered"
    /\ sigint_at' = <<main_pc, Cardinality({i \in 1..Len(tasks) : tasks[i] = "running"})>>
    /\ UNCHANGED <<process_frame, nodered, simulink, command, tasks, main_pc, exit_fn,
                   systemctl, exit_code>>

\* src 919-924, on the handler thread
HandlerStartNodered ==
    /\ Running
    /\ handler_pc = "start_nodered"
    /\ systemctl' = IF nodered THEN Systemctl("start", "nodered") ELSE systemctl
    /\ handler_pc' = "start_simulink"
    /\ UNCHANGED <<process_frame, sigint_at, nodered, simulink, command, tasks, main_pc, exit_fn,
                   exit_code>>

\* src 926-931, on the handler thread
HandlerStartSimulink ==
    /\ Running
    /\ handler_pc = "start_simulink"
    /\ systemctl' = IF simulink THEN Systemctl("start", "go-simulink") ELSE systemctl
    /\ handler_pc' = "exit"
    /\ UNCHANGED <<process_frame, sigint_at, nodered, simulink, command, tasks, main_pc, exit_fn,
                   exit_code>>

\* src 932, on the handler thread
HandlerExit ==
    /\ Running
    /\ handler_pc = "exit"
    /\ exit_code' = <<ExitArgument("err_n_restart_services")>>
    /\ handler_pc' = "exited"
    /\ UNCHANGED <<process_frame, sigint_at, nodered, simulink, command, tasks, main_pc, exit_fn,
                   systemctl>>

\* src 1245-1254: main has found out which services are active
InitProcess ==
    /\ UploadIdle
    /\ NoHistory
    /\ PolicyIdle
    /\ InfoIdle
    /\ NameIdle
    /\ PairIdle
    /\ ReplyIdle
    /\ TransportIdle
    /\ FrameIdle
    /\ firmware = SessionFirmware
    /\ nodered \in BOOLEAN
    /\ simulink \in BOOLEAN
    /\ command = ""
    /\ tasks = <<>>
    /\ main_pc = "stop_nodered"
    /\ exit_fn = "none"
    /\ handler_pc = "none"
    /\ systemctl = <<>>
    /\ sigint_at = <<>>
    /\ exit_code = <<>>

NextProcess ==
    \/ StopNodered
    \/ StopSimulink
    \/ SetHandler
    \/ ReadCommand
    \/ SessionEnds
    \/ Join
    \/ MainStartNodered
    \/ MainStartSimulink
    \/ MainExit
    \/ Sigint
    \/ HandlerStartNodered
    \/ HandlerStartSimulink
    \/ HandlerExit

SpecProcess == InitProcess /\ [][NextProcess]_vars

(***************************************************************************)
(* The evaluation of a reply in the upload loop (src 610-617 and 675-690)  *)
(***************************************************************************)
\* u16::from_be_bytes
u16_from_be_bytes(b) == b[1] * 256 + b[2]

\* what the engine reads of rx_buf: the checksum comparison, the line index
\* at bytes 6..8 (exclusive) and byte 8
Reading(rx) ==
    [ck   |-> rx[BOOTMESSAGE_LENGTH - 1] = calculate_checksum(rx, BOOTMESSAGE_LENGTH - 1),
     line |-> u16_from_be_bytes(Slice(rx, 6, 8)),
     b8   |-> rx[8]]

\* the branch the loop takes on a reply rx that a transfer has delivered
Verdict(ex, check, rx) ==
    IF ex = "line" /\ IsFirstExchange(check) THEN "ignored"
    ELSE IF Acceptable(Reading(rx), check) THEN "success"
    ELSE "error"

\* a reply buffer: the line index bytes, byte 8, a payload byte inside the
\* checksum range (44) and the byte after the checksum (46), and a checksum
\* that is right or off by `off`
ReplyBuffer(hi, lo, b8, in, out, off) ==
    LET body == [ZeroBuf(BOOTMESSAGE_LENGTH + 1) EXCEPT
                     ![0] = 39, ![6] = hi, ![7] = lo, ![8] = b8, ![44] = in, ![46] = out]
    IN  [body EXCEPT ![BOOTMESSAGE_LENGTH - 1] =
                         (calculate_checksum(body, BOOTMESSAGE_LENGTH - 1) + off) % 256]

\* the replies explored
ReplyBuffers ==
    {ReplyBuffer(hi, lo, b8, in, out, off) :
        hi \in {0, 1}, lo \in {0, 1, 2}, b8 \in {0, 1, 2},
        in \in {0, 200}, out \in {0, 7}, off \in {0, 1}}

\* the values of firmware_line_check explored
LineChecks == {0, 1, 2, 256, 257, USIZE_MAX}

reply_frame ==
    <<inputs, lines, pc, result, loop_state, tx_buf, rx_buf_escape, history,
      loop_history, caller_state, policy_state, info_state, name_state, pair_state,
      process_state, transport_state,
      frame_state>>

\* src 610-634 and 675-772: the reply is evaluated
Evaluate ==
    /\ verdict = "none"
    /\ verdict' = Verdict(exchange, expected, reply)
    /\ UNCHANGED <<reply_frame, exchange, expected, reply>>

\* a transfer of the loop has returned Ok with a reply in rx_buf
InitReply ==
    /\ UploadIdle
    /\ NoHistory
    /\ ProcessIdle
    /\ TransportIdle
    /\ FrameIdle
    /\ PolicyIdle
    /\ InfoIdle
    /\ NameIdle
    /\ PairIdle
    /\ firmware = SessionFirmware
    /\ exchange \in {"line", "probe"}
    /\ expected \in LineChecks
    \* a status probe is only sent once a line has been acknowledged (src 598)
    /\ exchange = "probe" => expected # USIZE_MAX
    /\ reply \in ReplyBuffers
    /\ verdict = "none"

NextReply == Evaluate

SpecReply == InitReply /\ [][NextReply]_vars

(***************************************************************************)
(* The transport of a session: SPI transfers, the reset line and the       *)
(* interrupt source self.interrupt (src 980-995), whose falling-edge       *)
(* events the kernel queues.  timeout(d, self.interrupt.next()).await      *)
(* takes the oldest queued event, or ends with Elapsed when none arrives   *)
(* within d.  The session is built by Module::new, runs overwrite_module   *)
(* and, after FirmwareCorrupted, wipe_module_error.                        *)
(***************************************************************************)
\* most transport operations of one run
MaxOps == 40

\* most events the queue holds in the runs explored
MaxQueue == 2

transport_frame ==
    <<inputs, lines, pc, result, loop_state, tx_buf, rx_buf_escape, history,
      loop_history, caller_state, policy_state, info_state, name_state, pair_state,
      process_state, reply_state, frame_state>>

\* an entry of oplog that carries no frame
NoFrame == [len |-> 0, bytes |-> <<>>]

\* an entry of oplog: a "transfer" of len bytes (ok: it went through), a
\* "reset" (ok: the state written), a "drain" or a "wait" of ms milliseconds
Op(op, frame, ok, ms) ==
    [op |-> op, len |-> frame.len, bytes |-> frame.bytes, ok |-> ok, ms |-> ms]

\* the drain loops that have ended so far
Drains == Cardinality({i \in 1..Len(oplog) : oplog[i].op = "drain"})

\* what the session's SPI device gives to the next transfer
TransportInput ==
    [PeerInput(plan.bad, oplog) EXCEPT !.ok = (Len(oplog) + 1) \notin plan.lost]

\* the iteration of the loop that starts in s sends the status probe (src 598)
ProbeDue(s) ==
    /\ DecodeOk(s.lines, s.line_number)
    /\ NeedsProbe(TypeOf(s.lines, s.line_number), s.firmware_line_check, s.line_number)

\* the timeout of the interrupt wait that follows the step from s to n, 0 when
\* none follows: src 571 (erase), 618, 623, 631 (status probe), 680 and 789
\* (line frame, and the end of the iteration after the post-terminal probe)
WaitAfter(s, n) ==
    CASE s.pc = "erase" /\ n.pc = "loop" -> 3500
      [] s.pc = "loop" /\ n.pc = "line" -> 5
      [] s.pc = "loop" /\ n.pc = "loop" -> IF ProbeDue(s) THEN 5 ELSE 1
      [] s.pc \in {"line", "escape"} /\ n.pc = "loop" -> 1
      [] OTHER -> 0

\* the timeouts of the interrupt waits, in milliseconds (src 452, 571; 618,
\* 623, 631; 680, 789)
WaitTimeouts == {3500, 5, 1}

\* mutant of AfterStep: the erase frame is written without a drain
AfterStep_NoDrain(n) ==
    IF n.pc = "erase" THEN "erase"
    ELSE IF NeedsWipe(n.result) THEN "wipe_dummy"
    ELSE IF Finished(n) THEN "end"
    ELSE "run"

\* where the session goes on once it is in program state n
AfterStep(n) ==
    IF n.pc = "erase" THEN "drain"
    ELSE IF NeedsWipe(n.result) THEN "wipe_dummy"
    ELSE IF Finished(n) THEN "end"
    ELSE "run"

\* the entries a step adds to oplog
Logged(out, ok) ==
    [k \in 1..Len(out.frames) |-> Op("transfer", out.frames[k], ok, 0)]
    \o [k \in 1..Len(out.resets) |-> Op("reset", NoFrame, out.resets[k], 0)]

\* src 1486-1500 and 1163-1167: the caller of Module::new starts the upload
TransportUpload ==
    /\ phase = "run"
    /\ run.pc = "some"
    /\ run' = [run EXCEPT !.pc = "start"]
    /\ UNCHANGED <<phase, interrupt, oplog, wait_ms, drained, woke, plan, transport_frame>>

\* one step of Module::new or of overwrite_module; the erase frame is written
\* once the drain loop has ended (src 559)
TransportStep ==
    /\ \/ phase = "run" /\ run.pc \notin {"some", "erase"}
       \/ phase = "erase"
    /\ Len(oplog) < MaxOps
    /\ LET in == TransportInput
           out == SessionStep("ModulineIV", 1, run, in)
           ms == WaitAfter(run, out.next)
       IN  /\ run' = out.next
           /\ oplog' = oplog \o Logged(out, in.ok)
           /\ wait_ms' = ms
           /\ phase' = IF ms > 0 THEN "wait" ELSE AfterStep(out.next)
    /\ UNCHANGED <<interrupt, drained, woke, plan, transport_frame>>

\* mutant of DrainGoesOn: the loop ends at once
DrainGoesOn_Never(queue) == FALSE

\* src 438 and 553: `while let Ok(_) = timeout(1 ms, self.interrupt.next())`
\* goes round again when an event was there to take
DrainGoesOn(queue) == queue # <<>>

\* src 437-440 and 552-555: one round of the drain loop
Drain ==
    /\ phase \in {"drain", "wipe_drain"}
    /\ IF DrainGoesOn(interrupt)
       THEN /\ interrupt' = Tail(interrupt)
            /\ drained' = drained + 1
            /\ UNCHANGED <<oplog, phase>>
       ELSE /\ oplog' = Append(oplog, Op("drain", NoFrame, TRUE, 1))
            /\ phase' = IF phase = "drain" THEN "erase" ELSE "wipe_frame"
            /\ UNCHANGED <<interrupt, drained>>
    /\ UNCHANGED <<run, wait_ms, woke, plan, transport_frame>>

\* mutant of AfterWait: a wait that timed out counts as an error
AfterWait_TimeoutCounts(s, fired) ==
    IF fired THEN s ELSE [s EXCEPT !.firmware_error_counter = s.firmware_error_counter + 1]

\* `_ = timeout(.., interrupt).await`: the outcome of the wait is dropped
AfterWait(s, fired) == s

\* src 452, 571, 618, 623, 631, 680, 789: the wait ends with an event or with
\* the timeout
Wait ==
    /\ phase \in {"wait", "wipe_wait"}
    /\ LET fired == interrupt # <<>>
       IN  /\ interrupt' = IF fired THEN Tail(interrupt) ELSE interrupt
           /\ woke' = [woke EXCEPT ![wait_ms] = IF fired THEN <<TRUE, Head(interrupt)>>
                                                  ELSE <<FALSE, -1>>]
           /\ run' = AfterWait(run, fired)
    /\ oplog' = Append(oplog, Op("wait", NoFrame, TRUE, wait_ms))
    /\ wait_ms' = 0
    /\ phase' = IF phase = "wipe_wait" THEN "end" ELSE AfterStep(run')
    /\ UNCHANGED <<drained, plan, transport_frame>>

\* the module pulls the interrupt line low: the kernel queues an event
Edge ==
    /\ phase \notin {"idle", "end"}
    /\ run.pc # "new"
    /\ Len(interrupt) < MaxQueue
    \* the runs explored: a drain loop takes at most MaxQueue events
    /\ phase \in {"drain", "wipe_drain"} => drained + Len(interrupt) < MaxQueue
    /\ interrupt' = Append(interrupt, Drains)
    /\ UNCHANGED <<run, phase, oplog, wait_ms, drained, woke, plan, transport_frame>>

\* src 411-417: the dummy write of wipe_module_error
TransportWipeDummy ==
    /\ phase = "wipe_dummy"
    /\ \E ok \in BOOLEAN :
          /\ oplog' = Append(oplog, Op("transfer",
                                       [len |-> BufLen(DUMMY_MESSAGE), bytes |-> DUMMY_MESSAGE],
                                       ok, 0))
          /\ phase' = IF ok THEN "wipe_assert" ELSE "end"
    /\ UNCHANGED <<run, interrupt, wait_ms, drained, woke, plan, transport_frame>>

\* src 419-426: the reset pulse of wipe_module_error
TransportWipeReset ==
    /\ phase \in {"wipe_assert", "wipe_deassert"}
    /\ oplog' = Append(oplog, Op("reset", NoFrame, phase = "wipe_assert", 0))
    /\ phase' = IF phase = "wipe_assert" THEN "wipe_deassert" ELSE "wipe_drain"
    /\ drained' = 0
    /\ UNCHANGED <<run, interrupt, wait_ms, woke, plan, transport_frame>>

\* src 443-450: the wipe frame is written
TransportWipeFrame ==
    /\ phase = "wipe_frame"
    /\ \E ok \in BOOLEAN :
          /\ oplog' = Append(oplog, Op("transfer",
                                       [len |-> BufLen(BuildWipeFrame), bytes |-> BuildWipeFrame],
                                       ok, 0))
          /\ phase' = IF ok THEN "wipe_wait" ELSE "end"
          /\ wait_ms' = IF ok THEN 3500 ELSE 0
    /\ UNCHANGED <<run, interrupt, drained, woke, plan, transport_frame>>

\* the peers explored: every reply right; every reply of the upload wrong;
\* single wrong replies; and transfers that fail
TransportPlans ==
    [bad : {{}, 8..(MaxOps + 1), {10}}, lost : {{}, {6}, {8}}]

InitTransport ==
    /\ UploadIdle
    /\ NoHistory
    /\ ProcessIdle
    /\ ReplyIdle
    /\ PolicyIdle
    /\ InfoIdle
    /\ NameIdle
    /\ PairIdle
    /\ FrameIdle
    /\ firmware = SessionFirmware
    /\ run = NewSession(ImageShort)
    /\ phase = "run"
    /\ interrupt = <<>>
    /\ oplog = <<>>
    /\ wait_ms = 0
    /\ drained = 0
    /\ woke = [ms \in WaitTimeouts |-> <<>>]
    /\ plan \in TransportPlans

NextTransport ==
    \/ TransportUpload
    \/ TransportStep
    \/ Drain
    \/ Wait
    \/ Edge
    \/ TransportWipeDummy
    \/ TransportWipeReset
    \/ TransportWipeFrame

SpecTransport == InitTransport /\ [][NextTransport]_vars

(***************************************************************************)
(* One firmware line frame: lines[line_number] is decoded and the frame is *)
(* built in the reused tx_buf (src 593-596 and 636-669).  The record, the  *)
(* line index and the earlier content of tx_buf are the inputs.            *)
(***************************************************************************)
frame_frame ==
    <<inputs, lines, pc, result, loop_state, tx_buf, rx_buf_escape, history,
      loop_history, caller_state, policy_state, info_state, name_state, pair_state,
      process_state, reply_state, transport_state>>

\* the bytes of a record that declares n bytes
PayloadOf(n) == [k \in 1..n |-> (k * 37 + 11) % 256]

\* declared lengths: none, short ones, the longest that ends before the
\* checksum byte, and one more
RecordLengths == {0, 1, 2, BOOTMESSAGE_LENGTH - 11, BOOTMESSAGE_LENGTH - 10}

\* type nibbles: header, data, terminal, and the largest digit
RecordTypes == {0, 3, 7, 15}

\* line indexes, 65536 being the first that does not fit bytes 6 and 7
LineIndexes == {0, 1, 255, 256, 4660, 65535, 65536}

\* the records frames are built for: well-formed ones, and ones whose last
\* byte is missing from the file
RecordsGiven ==
    {[type |-> t, body |-> PayloadOf(n), line |-> Record(t, PayloadOf(n))] :
        t \in RecordTypes, n \in RecordLengths}
    \cup {[type |-> t, body |-> PayloadOf(2),
           line |-> SubSeq(Record(t, PayloadOf(2)), 1, Len(Record(t, PayloadOf(2))) - 2)] :
              t \in RecordTypes}

\* tx_buf before the first line frame: it holds the erase frame (src 543-550)
FrameAfterErase == BuildEraseFrame(ZeroBuf(BOOTMESSAGE_LENGTH + 1), NewFirmware)

\* tx_buf after a line frame with the longest payload
FrameAfterLine ==
    BuildLineFrame(FrameAfterErase, 1, 3, Record(3, PayloadOf(BOOTMESSAGE_LENGTH - 11)),
                   CopyCount(BOOTMESSAGE_LENGTH - 11))

\* src 593-596: message_type and line_length are parsed from the record; get
\* returning None or from_str_radix returning Err panics
DecodeRecord ==
    /\ frame_pc = "decode"
    /\ IF ParseOk(srec_line, 1, 2) /\ ParseOk(srec_line, 2, 4)
       THEN /\ srec_decoded' = <<ParseAt(srec_line, 1, 2), ParseAt(srec_line, 2, 4)>>
            /\ frame_pc' = "build"
       ELSE /\ srec_decoded' = srec_decoded
            /\ frame_pc' = "panic"
    /\ UNCHANGED <<frame_frame, given, srec_line, srec_index, frame_buf>>

\* src 636-669: header, line index, type, the copy loop, the write after the
\* loop and the checksum; a missing pair of characters or an index outside
\* tx_buf panics
BuildFrame ==
    /\ frame_pc = "build"
    /\ LET count == CopyCount(srec_decoded[2])
       IN  IF PayloadOk(frame_buf, srec_line, count)
           THEN /\ frame_buf' = BuildLineFrame(frame_buf, srec_index, srec_decoded[1],
                                               srec_line, count)
                /\ frame_pc' = "built"
           ELSE /\ frame_buf' = frame_buf
                /\ frame_pc' = "panic"
    /\ UNCHANGED <<frame_frame, given, srec_line, srec_index, srec_decoded>>

InitFrame ==
    /\ UploadIdle
    /\ NoHistory
    /\ ProcessIdle
    /\ ReplyIdle
    /\ TransportIdle
    /\ PolicyIdle
    /\ InfoIdle
    /\ NameIdle
    /\ PairIdle
    /\ firmware = SessionFirmware
    /\ \E r \in RecordsGiven :
          /\ given = [type |-> r.type, body |-> r.body]
          /\ srec_line = r.line
    /\ srec_index \in LineIndexes
    /\ srec_decoded = <<>>
    /\ frame_buf \in {FrameAfterErase, FrameAfterLine}
    /\ frame_pc = "decode"

NextFrame ==
    \/ DecodeRecord
    \/ BuildFrame

SpecFrame == InitFrame /\ [][NextFrame]_vars

(***************************************************************************)
(* A session: it is constructed, or it runs an upload                      *)
(***************************************************************************)
InitSession ==
    \/ Init
    \/ InitInfo

NextSession ==
    \/ Next
    \/ NextInfo

SpecSession == InitSession /\ [][NextSession]_vars

(***************************************************************************)
(* Reading the history                                                     *)
(***************************************************************************)
\* the command ids of the frames sent, in order
Commands == [i \in 1..Len(sent) |-> sent[i].bytes[0]]

IsPrefix(a, b) == Len(a) <= Len(b) /\ \A i \in 1..Len(a) : a[i] = b[i]

\* line n of ls is a terminal (type-7) record
IsTerminal(ls, n) == DecodeOk(ls, n) /\ TypeOf(ls, n) = 7

\* the file is one the engine refuses before the erase
Refused == ~file_readable \/ Len(Split(content)) <= 1

\* the upload of the image of scenario S1
RunsS1Image == file_readable /\ content \in {ImageS1, ImageS1NL}

(***************************************************************************)
(* Claims                                                                  *)
(***************************************************************************)

\* C1: when overwrite_module returns Ok, every line below the terminal (type-7)
\* record has been acknowledged by at least one accepted reply (valid checksum,
\* byte 8 = 1, line index equal to that line), wherever the errors fell.
C1_OkImpliesEveryLineAcked ==
    result = "Ok" =>
        \A n \in 0..(Len(lines) - 1) :
            IsTerminal(lines, n) => \A k \in 0..(n - 1) : k \in acked

\* C1 witness: an upload of the S1 image that returned Ok although exchanges failed
C1_Witness ==
    /\ RunsS1Image
    /\ result = "Ok"
    /\ Len(faults) >= 2
    /\ {0, 1, 2} \subseteq acked

\* C2 (as claimed): once the erase frame has been written, overwrite_module
\* ends with Ok or FirmwareCorrupted and in no other way.
C2_EndsOkOrCorrupted ==
    (29 \in wired /\ pc = "done") => result \in {"Ok", "Corrupted"}

\* C3: a file that cannot be read, or that splits into at most one line, makes
\* overwrite_module return FirmwareUntouched with no frame handed to the SPI
\* channel at all.
C3_RefusedFileSendsNothing ==
    Refused =>
        /\ sent = <<>>
        /\ wired = {}
        /\ pc \in {"start", "done"}
        /\ pc = "done" => result = "Untouched"

\* C3 witness: the one-line file and the unreadable file have both been refused
C3_Witness ==
    /\ pc = "done"
    /\ result = "Untouched"
    /\ file_readable
    /\ content = ImageOneLine
    /\ Len(lines) = 1

\* C4 (as claimed): after the erase frame has been issued, every end of the
\* upload short of success is FirmwareCorrupted.
C4_PostEraseAbortIsCorrupted ==
    (29 \in wired /\ result \notin {"none", "Ok"}) => result = "Corrupted"

\* C5: when overwrite_module returns FirmwareUntouched, no erase frame and no
\* line frame has reached the wire: no transfer of a command-29 or command-39
\* frame succeeded and no line frame was even handed to the channel.
C5_UntouchedMeansNothingOnTheWire ==
    result = "Untouched" =>
        /\ 29 \notin wired
        /\ 39 \notin wired
        /\ \A i \in 1..Len(sent) : sent[i].bytes[0] # 39

\* C5 witness: FirmwareUntouched returned because the erase transfer failed
C5_Witness ==
    /\ result = "Untouched"
    /\ Len(sent) = 1
    /\ sent[1].bytes[0] = 29
    /\ faults = <<1>>

\* C6 (as claimed): the engine is never still running with more than 10
\* errors counted, and FirmwareCorrupted is returned only above 10.
C6_CapIsHard ==
    /\ pc # "done" => firmware_error_counter <= ERROR_CAP
    /\ result = "Corrupted" => firmware_error_counter > ERROR_CAP

\* C7: overwrite_module returns Ok only after a type-7 line frame was sent and
\* its reply accepted, and the post-terminal probe sent after it was answered
\* with a valid checksum and byte 6 = 20.
C7_OkOnlyAfterTerminalConfirmed ==
    result = "Ok" =>
        /\ terminal_accepted
        /\ escape_received
        /\ rx_buf_escape.ck
        /\ rx_buf_escape.b6 = BOOTLOADER_ANSWER
        /\ \E i \in 1..Len(sent) :
              /\ sent[i].bytes[0] = 39
              /\ sent[i].bytes[8] = 7
              /\ \E j \in (i + 1)..Len(sent) :
                    /\ sent[j].len = BOOTMESSAGE_LENGTH_CHECK
                    /\ sent[j].bytes[0] = 49

\* C7 witness: Ok after a post-terminal probe that was not answered at first
C7_Witness ==
    /\ result = "Ok"
    /\ terminal_accepted
    /\ Cardinality({i \in 1..Len(sent) : sent[i].len = BOOTMESSAGE_LENGTH_CHECK}) >= 2

\* C8: on clean completion the command-19 frame is the last frame sent and Ok
\* is returned right after it; no command-19 frame is sent in an execution
\* that is still running or that ends otherwise.
C8_CancelIsLastAndOnlyOnOk ==
    /\ result = "Ok" =>
          /\ Len(sent) >= 1
          /\ sent[Len(sent)].bytes[0] = 19
          /\ \A i \in 1..(Len(sent) - 1) : sent[i].bytes[0] # 19
    /\ result # "Ok" => \A i \in 1..Len(sent) : sent[i].bytes[0] # 19

\* C8 witness: an upload that returned Ok
C8_Witness ==
    /\ result = "Ok"
    /\ Len(sent) >= 4
    /\ sent[Len(sent)].bytes[0] = 19

\* the frames of scenario S1, as command ids
S1Commands == <<29, 39, 39, 39, 49, 39, 49, 19>>

\* C9: scenario S1: with the S1 image and nothing but acceptable replies the
\* frames sent are 29 (with the new software version), 39 for lines 0, 1, 2,
\* the status probe 49, 39 for line 3, the 61-byte probe 49, then 19, in this
\* order, and the result is Ok.
C9_ScenarioS1 ==
    (RunsS1Image /\ faults = <<>>) =>
        /\ IsPrefix(Commands, S1Commands)
        /\ Len(sent) >= 1 =>
              <<sent[1].bytes[6], sent[1].bytes[7], sent[1].bytes[8]>>
                  = get_software(NewFirmware)
        /\ \A i \in 1..Len(sent) :
              /\ i \in {2, 3, 4} => FrameLine(sent[i]) = i - 2
              /\ i = 6 => FrameLine(sent[i]) = 3 /\ sent[i].bytes[8] = 7
              /\ sent[i].len = IF i = 7 THEN BOOTMESSAGE_LENGTH_CHECK
                               ELSE BOOTMESSAGE_LENGTH + 1
        /\ pc = "done" => result = "Ok" /\ Commands = S1Commands

\* C9 witness: the error-free upload of the S1 image has finished
C9_Witness ==
    /\ RunsS1Image
    /\ faults = <<>>
    /\ pc = "done"
    /\ Len(sent) = 8

\* C10 (as claimed): scenario S2: the only exchange not accepted is the one
\* that carries the acknowledgement of line 2 (the 5th frame, the status
\* probe).  Then err_count is 1 and the indices are swapped, the next frame
\* repeats the line-2 frame byte for byte, the next accepted reply leaves
\* line_number at 3, and the upload ends Ok in the final state of S1.
C10_ScenarioS2 ==
    (RunsS1Image /\ faults = <<5>>) =>
        /\ (Len(sent) = 5 /\ pc = "loop") =>
              /\ firmware_error_counter = 1
              /\ line_number = 2
              /\ firmware_line_check = 3
        /\ Len(sent) >= 6 => sent[6].bytes = sent[4].bytes
        /\ (Len(sent) = 6 /\ pc = "loop") => line_number = 3
        /\ pc = "done" =>
              /\ result = "Ok"
              /\ loop_state = <<3, 3, 0, 7>>

S3Iteration == ERROR_CAP + 2

S5Commands == <<29, 39, 39, 39, 49, 39, 49, 39, 49, 19>>

\* the type-7 line frames sent so far
TerminalFrames == {i \in 1..Len(sent) : sent[i].bytes[0] = 39 /\ sent[i].bytes[8] = 7}

\* scenario S5 so far: the S1 image, and the only exchange not accepted is the
\* first post-terminal probe (the 7th frame), whose reply was a frame the
\* engine could evaluate (byte 1 inside the 61-byte buffer; see C37 otherwise)
RunsS5 == RunsS1Image /\ faults = <<7>> /\ result # "Panic"

WipeFrames ==
    {i \in 1..Len(sent) :
        /\ sent[i].len = BOOTMESSAGE_LENGTH + 1
        /\ sent[i].bytes[0] = 29
        /\ <<sent[i].bytes[6], sent[i].bytes[7], sent[i].bytes[8]>> = <<255, 255, 255>>}

\* the dummy writes sent so far
DummyWrites == {i \in 1..Len(sent) : sent[i].len = BufLen(DUMMY_MESSAGE)}

\* the exchange at position i of sent failed or was not accepted
Faulty(i) == \E k \in 1..Len(faults) : faults[k] = i

\* C12 (as claimed): whenever overwrite_module returns FirmwareCorrupted, the
\* caller sends the bare wipe (command 29, bytes 6, 7, 8 = 255) before it
\* reports the failure; after FirmwareUntouched or Ok no bare wipe is sent.
C12_WipeAfterCorrupted ==
    /\ (result = "Corrupted" /\ caller_pc = "reported") =>
          /\ WipeFrames # {}
          /\ Len(sent) \in WipeFrames
    /\ result \in {"Ok", "Untouched"} => WipeFrames = {}

\* C12 (amended): whenever overwrite_module returns FirmwareCorrupted, the
\* caller runs wipe_module_error before it reports the failure: the next
\* frame is the 5-byte dummy write; when that transfer fails nothing else is
\* sent; when it succeeds the reset line is pulsed once and one command-29
\* frame with bytes 6, 7, 8 = 255 is written as the last frame.  Nothing is
\* reported before.  After FirmwareUntouched or Ok (or a panic) neither a
\* dummy write nor a bare wipe is sent.
C12_WipeAfterCorrupted_Amended ==
    /\ (result = "Corrupted" /\ caller_pc = "reported") =>
          \E d \in DummyWrites :
              /\ DummyWrites = {d}
              /\ \A i \in 1..(d - 1) : i \notin WipeFrames
              /\ IF Faulty(d)
                 THEN Len(sent) = d /\ reset_log = <<>> /\ WipeFrames = {}
                 ELSE /\ Len(sent) = d + 1
                      /\ WipeFrames = {d + 1}
                      /\ reset_log = <<[state |-> TRUE, at |-> d],
                                       [state |-> FALSE, at |-> d]>>
    /\ report # "none" => caller_pc = "reported"
    /\ (result = "Corrupted" /\ caller_pc = "reported") => report = Reported(caller, "Corrupted")
    /\ result # "Corrupted" => WipeFrames = {} /\ DummyWrites = {} /\ reset_log = <<>>

\* C12 witness: update_module has wiped the module and reports FirmwareCorrupted
C12_Witness ==
    /\ result = "Corrupted"
    /\ caller = "update_module"
    /\ report = "Err(FirmwareCorrupted)"
    /\ Len(sent) \in WipeFrames

\* candidate c is eligible for a session that reports version v
Eligible(c, v) ==
    /\ get_hardware(c) = get_hardware(v)
    /\ get_software(c) # <<255, 255, 255>>
    /\ SliceLess(get_software(v), get_software(c)) \/ get_software(v) = <<255, 255, 255>>

\* the positions in firmwares of the eligible candidates
EligiblePositions == {k \in 1..Len(firmwares) : Eligible(firmwares[k], firmware)}

\* C14: update_module reports that there is no update exactly when no
\* candidate is eligible (same hardware quad, software not 255.255.255, and
\* software greater than the session's or the session's equal to
\* 255.255.255); otherwise the version it hands to overwrite_module is an
\* eligible candidate whose software triple no eligible candidate exceeds.
C14_UpdatePolicy ==
    /\ policy_pc \in {"no_update", "returned"} =>
          /\ EligiblePositions = {}
          /\ ~update.some
    /\ policy_pc \in {"dispatch", "uploading"} =>
          /\ EligiblePositions # {}
          /\ update.some
          /\ (update.index + 1) \in EligiblePositions
          /\ \A k \in EligiblePositions :
                ~SliceLess(update.software, get_software(firmwares[k]))
          /\ update.software = get_software(firmwares[update.index + 1])
    /\ policy_pc = "returned" => report = "Ok(Err(self))" /\ dispatched = <<>>
    /\ policy_pc = "uploading" =>
          /\ report = "none"
          /\ \E k \in EligiblePositions :
                /\ dispatched = firmwares[k]
                /\ \A j \in EligiblePositions :
                      ~SliceLess(get_software(dispatched), get_software(firmwares[j]))

\* C14 witness: three candidates, two of them eligible, one of other hardware;
\* the greatest eligible one is not the first and has been dispatched
C14_Witness ==
    /\ policy_pc = "uploading"
    /\ Len(firmwares) = 3
    /\ Cardinality(EligiblePositions) = 2
    /\ update.index > 0
    /\ \E k \in EligiblePositions : SliceLess(get_software(firmwares[k]), update.software)
    /\ \E k \in 1..3 : get_hardware(firmwares[k]) # get_hardware(firmware)

\* the identify reply has arrived: the exchange of the command-9 frame went through
IdentifyAnswered == Len(sent) = 2 /\ 9 \in wired

\* acceptance of an identify reply as specified: checksum right, bytes 0 and 2 both 9
SpecifiedAcceptance(rx) ==
    /\ rx[45] = WrappingSum(rx, 45)
    /\ rx[0] = 9
    /\ rx[2] = 9

\* C15 (as claimed): the info query yields None whenever the checksum at byte
\* 45 of the identify reply is not the wrapping sum of bytes 0..44, or bytes 0
\* and 2 are not both 9; a reply with a valid checksum in which exactly one
\* of byte 0 and byte 2 is 9 is rejected.
C15_RejectsUnlessBothNine ==
    (IdentifyAnswered /\ ~SpecifiedAcceptance(rx_buf)) => info_pc = "none"

\* the session's transfers and reset writes are those of one whole query
WholeQuery ==
    /\ Len(sent) = 2
    /\ sent[1].bytes = DUMMY_MESSAGE
    /\ sent[2].len = BOOTMESSAGE_LENGTH + 1
    /\ sent[2].bytes[0] = 9
    /\ reset_log = <<[state |-> TRUE, at |-> 1], [state |-> FALSE, at |-> 1]>>

\* C16 (as claimed): every info query performs, in order, one dummy write,
\* one reset pulse and one command-9 identify exchange; a rejected reply
\* gives None with nothing after it.
C16_ConstructionSequence ==
    (info_pc \in {"some", "none"} /\ spidev # "") => WholeQuery

\* C16 (amended): once the devices of the slot are open, session construction
\* performs, in order, one dummy write, one reset pulse (assert, then
\* deassert) and one command-9 identify exchange, each at most once; it stops
\* with None before the dummy write when the devices cannot be opened, and
\* after the dummy write, with no reset pulse and no identify frame, when the
\* dummy write fails.  When the identify transfer fails or its reply is
\* rejected it yields None with no retry, no further frame and no further
\* reset pulse.
C16_ConstructionSequence_Amended ==
    /\ Len(sent) <= 2
    /\ Len(sent) >= 1 => sent[1].bytes = DUMMY_MESSAGE
    /\ \A k \in 1..Len(reset_log) : reset_log[k] = [state |-> (k = 1), at |-> 1]
    /\ Len(reset_log) <= 2
    /\ Len(sent) = 2 => WholeQuery
    /\ info_pc \in {"some", "none"} =>
          \/ info_pc = "none" /\ spidev = "" /\ sent = <<>> /\ reset_log = <<>>
          \/ info_pc = "none" /\ spidev # "" /\ Len(sent) = 1 /\ faults = <<1>>
                /\ reset_log = <<>>
          \/ spidev # "" /\ WholeQuery /\ (info_pc = "none" <=> faults = <<2>>)
    /\ (IdentifyAnswered /\ Rejected(rx_buf)) => info_pc = "none" /\ WholeQuery

\* C16 witness: the identify reply arrived with a wrong checksum and was
\* rejected; construction has ended with None after one whole query
C16_Witness ==
    /\ info_pc = "none"
    /\ IdentifyAnswered
    /\ rx_buf[45] # WrappingSum(rx_buf, 45)
    /\ WholeQuery

\* C17 (as claimed): every session Module::new returns has its identity from
\* an identify reply that passed acceptance (checksum right, bytes 0 and 2
\* both 9): firmware = reply bytes 6..13, manufacturer, qr_front and qr_back
\* the big-endian values of bytes 13..17, 17..21 and 21..25; after a failed
\* info query no session is returned.
C17_IdentityFromAcceptedReply ==
    /\ info_pc = "some" =>
          /\ IdentifyAnswered
          /\ SpecifiedAcceptance(rx_buf)
          /\ firmware = <<rx_buf[6], rx_buf[7], rx_buf[8], rx_buf[9], rx_buf[10],
                          rx_buf[11], rx_buf[12]>>
          /\ manufacturer = rx_buf[13] * 16777216 + rx_buf[14] * 65536
                                + rx_buf[15] * 256 + rx_buf[16]
          /\ qr_front = rx_buf[17] * 16777216 + rx_buf[18] * 65536
                            + rx_buf[19] * 256 + rx_buf[20]
          /\ qr_back = rx_buf[21] * 16777216 + rx_buf[22] * 65536
                           + rx_buf[23] * 256 + rx_buf[24]
    /\ (info_pc \notin {"new", "dummy", "assert", "deassert", "identify"} /\ faults # <<>>) =>
          info_pc = "none"

\* C18: for every FirmwareVersion v, from_filename(v.as_filename()) is Some(v).
C18_FilenameRoundTrip ==
    /\ name_pc = "done" => parsed = [some |-> TRUE, firmware |-> version]
    /\ name_pc \in {"parse", "done"} =>
          /\ Len(SplitOn(name, ".")) = 2
          /\ Len(SplitOn(Head(SplitOn(name, ".")), "-")) = 7

\* C18 witness: a version with fields of one, two and three digits, among
\* them 0 and 255, has been written and read back
C18_Witness ==
    /\ name_pc = "done"
    /\ parsed.some
    /\ {0, 10, 255} \subseteq {version[k] : k \in 1..7}
    /\ Len(name) = 5 + 6 + 3 + 2 * 2 + 3 * 3

\* the sum of bytes 0..n-1 of b, as a number
RECURSIVE ByteSum(_, _)
ByteSum(b, n) == IF n = 0 THEN 0 ELSE ByteSum(b, n - 1) + b[n - 1]

\* the command frames sent so far: everything but the 5-byte dummy message
CommandFrames == {i \in 1..Len(sent) : sent[i].len > BufLen(DUMMY_MESSAGE)}

\* C19: every command frame the engine transmits (ids 9, 19, 29, 39, 49),
\* also one built in a transmit buffer that still holds the payload of an
\* earlier frame, carries at byte 45 the sum modulo 256 of its bytes 0..44.
C19_FramesCarryChecksum ==
    \A i \in CommandFrames :
        /\ sent[i].bytes[0] \in {9, 19, 29, 39, 49}
        /\ sent[i].bytes[45] = ByteSum(sent[i].bytes, 45) % 256

\* C19 witness: an upload has sent frames of the ids 29, 39, 49 and 19, and
\* its command-19 frame was built over the payload of an earlier line frame
C19_Witness ==
    /\ {29, 39, 49, 19} \subseteq {sent[i].bytes[0] : i \in CommandFrames}
    /\ sent[Len(sent)].bytes[0] = 19
    /\ \E k \in 9..44 : sent[Len(sent)].bytes[k] # 0
    /\ sent[Len(sent)].bytes[45] # 19 + 45 + 19

\* what the session of slot sl has written to its SPI device and reset file
OnDevice(sl) == bus[SpiDevice(pair.controller, sl)]
OnResetFile(sl) == leds[ResetPath(sl)]

Exited == exit_code # <<>>

\* the upload errors a session can end with
UploadErrors ==
    {"Err(FirmwareCorrupted)", "Err(FirmwareUntouched)", "Corrupted", "Untouched"}

\* a session of the command has ended with an upload error
SomeUploadFailed == \E i \in 1..Len(tasks) : tasks[i] \in UploadErrors

\* SIGINT has arrived after the handler was installed
SigintArrived == handler_pc \in {"start_nodered", "start_simulink", "exit", "exited"}

\* C21 (as claimed): the process exits with code 0 only on success: when a
\* session of the command (of an update of all modules in particular) has
\* ended with FirmwareUntouched or FirmwareCorrupted, the exit code is not 0.
C21_ExitCodeOnFailure ==
    (Exited /\ ~SigintArrived /\ SomeUploadFailed) => ExitStatus(exit_code[1]) # 0

\* the systemctl invocations with this verb, as a set of units
Units(verb) == {systemctl[i][2] : i \in {k \in 1..Len(systemctl) : systemctl[k][1] = verb}}

\* SIGINT arrived in the middle of an upload: the main thread was waiting for
\* sessions of which at least one was still running
SigintMidUpload == sigint_at # <<>> /\ sigint_at[1] = "await" /\ sigint_at[2] >= 1

\* C22 (as claimed): after a SIGINT that arrived once the handler was
\* installed (in the middle of an upload here), the process ends with every
\* service the tool stopped started again, and only those, and with a non-zero
\* exit code (runs in which no session panics).
C22_SigintCleanup ==
    (Exited /\ SigintMidUpload /\ exit_fn # "panic") =>
        /\ Units("start") = Units("stop")
        /\ ExitStatus(exit_code[1]) # 0

\* the boot frames sent so far: every frame but the 5-byte dummy message and
\* the 61-byte post-terminal probe
BootFrames ==
    {i \in 1..Len(sent) :
        sent[i].len \notin {BufLen(DUMMY_MESSAGE), BOOTMESSAGE_LENGTH_CHECK}}

\* C23 (as claimed): every boot frame written to the SPI channel, other than
\* the 5-byte dummy message and the 61-byte post-terminal probe, is exactly 46
\* bytes long and its last byte is the checksum of the bytes before it.
C23_FramesAre46Bytes ==
    \A i \in BootFrames :
        /\ sent[i].len = BOOTMESSAGE_LENGTH
        /\ sent[i].bytes[sent[i].len - 1] = ByteSum(sent[i].bytes, sent[i].len - 1) % 256

\* C23 (amended): every such frame is the whole transmit buffer of
\* BOOTMESSAGE_LENGTH + 1 = 47 bytes: bytes 0..45 are the 46-byte frame with
\* the checksum of bytes 0..44 at byte 45, and one more byte (index 46)
\* follows the checksum on the wire.
C23_FramesAre46Bytes_Amended ==
    \A i \in BootFrames :
        /\ sent[i].len = BOOTMESSAGE_LENGTH + 1
        /\ DOMAIN sent[i].bytes = 0..BOOTMESSAGE_LENGTH
        /\ sent[i].bytes[1] = BOOTMESSAGE_LENGTH - 1
        /\ sent[i].bytes[BOOTMESSAGE_LENGTH - 1] =
               ByteSum(sent[i].bytes, BOOTMESSAGE_LENGTH - 1) % 256

\* C23 witness: an upload that failed has sent erase, line and probe frames,
\* then the dummy message and the wipe frame
C23_Witness ==
    /\ Len(sent) \in WipeFrames
    /\ DummyWrites # {}
    /\ {29, 39, 49} \subseteq {sent[i].bytes[0] : i \in BootFrames}

\* this step hands a frame to the SPI channel
Sends == Len(sent') = Len(sent) + 1

\* the frame this step hands to the channel
NewFrame == sent'[Len(sent')]

\* the exchange of the frame this step sends fails or its reply is not accepted
NewFrameRejected == \E k \in 1..Len(faults') : faults'[k] = Len(sent')

\* f is a pre-terminal status probe: command 49 in the 47-byte buffer
IsStatusProbe(f) == f.len = BOOTMESSAGE_LENGTH + 1 /\ f.bytes[0] = 49

IsLineFrame(f) == f.len = BOOTMESSAGE_LENGTH + 1 /\ f.bytes[0] = 39

IsTerminalFrame(f) == IsLineFrame(f) /\ f.bytes[8] = 7

\* the last exchange so far was a status probe, with this outcome
LastWasProbe(failed) ==
    /\ Len(sent) >= 1
    /\ IsStatusProbe(sent[Len(sent)])
    /\ Faulty(Len(sent)) = failed

\* the loop is about to transmit a type-7 line whose predecessor is not confirmed
TerminalPending ==
    /\ pc = "loop"
    /\ DecodeOk(lines, line_number)
    /\ TypeOf(lines, line_number) = 7
    /\ firmware_line_check # line_number

\* C24, one step of the engine
C24_Step ==
    /\ (Sends /\ IsTerminalFrame(NewFrame)) =>
          \/ firmware_line_check = line_number
          \/ LastWasProbe(FALSE) /\ firmware_line_check \in acked
    /\ (Sends /\ TerminalPending) =>
          /\ IsStatusProbe(NewFrame)
          /\ NewFrameRejected =>
                /\ line_number' = firmware_line_check
                /\ firmware_line_check' = line_number
                /\ pc' = "loop"
    /\ (Sends /\ LastWasProbe(TRUE)) =>
          /\ IsLineFrame(NewFrame)
          /\ ~IsTerminalFrame(NewFrame)
          /\ FrameLine(NewFrame) = line_number
          /\ \E j \in 1..Len(sent) : sent[j].bytes = NewFrame.bytes

\* C24: a type-7 line frame is transmitted only when line_check = line_number
\* or right after a status probe whose reply was acceptable for line_check;
\* when a type-7 line is due with line_check # line_number the frame sent is
\* the status probe; when that probe fails the indices are swapped and the
\* next frame sent is, byte for byte, a line frame sent before (the
\* predecessor the probe asked about), never the type-7 frame.
C24_TerminalHeldBack == [][C24_Step]_vars

\* C24 witness: a status probe failed, the predecessor was sent again, the
\* next status probe was accepted and the type-7 frame followed it
C24_Witness ==
    \E i \in 1..Len(sent) :
        /\ i + 3 <= Len(sent)
        /\ IsStatusProbe(sent[i]) /\ Faulty(i)
        /\ IsLineFrame(sent[i + 1]) /\ sent[i + 1].bytes[8] # 7
        /\ IsStatusProbe(sent[i + 2]) /\ ~Faulty(i + 2)
        /\ IsTerminalFrame(sent[i + 3])

\* this step is a post-terminal probe that was not answered by the bootloader
\* (the reply could be evaluated)
EscapeUnanswered ==
    /\ pc = "escape"
    /\ pc' = "loop"
    /\ ~BootloaderAnswered(rx_buf_escape')

\* C25 (as claimed): after an accepted type-7 frame, when the reply to the
\* post-terminal probe is not (checksum valid and byte 6 = 20), the engine
\* sets message_type to 0, swaps line_number and line_check and increments
\* err_count before it re-attempts the terminal frame.
C25_TerminalRetryAccounting ==
    [][EscapeUnanswered =>
          /\ message_type' = 0
          /\ line_number' = firmware_line_check
          /\ firmware_line_check' = line_number
          /\ firmware_error_counter' = firmware_error_counter + 1]_vars

\* this step is an exchange of the upload loop (a line frame or a status probe)
LoopExchange ==
    /\ pc \in {"loop", "line"}
    /\ Sends
    /\ IsLineFrame(NewFrame) \/ IsStatusProbe(NewFrame)

\* this step is an exchange of the upload loop that took the error path
Rejected_Exchange == LoopExchange /\ NewFrameRejected

\* the last exchange of the loop so far took the error path
LastWasRejected ==
    /\ Len(sent) >= 1
    /\ IsLineFrame(sent[Len(sent)]) \/ IsStatusProbe(sent[Len(sent)])
    /\ Faulty(Len(sent))

\* C26, one step of the engine
C26_Step ==
    /\ Rejected_Exchange =>
          /\ line_number' = firmware_line_check
          /\ firmware_line_check' = line_number
          /\ message_type' # 7
          /\ firmware_error_counter' = firmware_error_counter + 1
    /\ (LastWasRejected /\ Sends /\ IsLineFrame(NewFrame)) =>
          FrameLine(NewFrame) = line_number

\* C26: on every iteration whose exchange is not accepted (line frame or
\* pre-terminal status probe) the engine swaps line_number and line_check,
\* sets message_type to a non-terminal value and adds exactly 1 to err_count;
\* the next line frame transmitted carries the line the rejected
\* acknowledgement was expected for.
C26_ErrorPath == [][C26_Step]_vars

\* C26 witness: a line frame and a status probe have both been rejected and
\* each was followed by a line frame
C26_Witness ==
    /\ firmware_error_counter >= 2
    /\ \E i \in 1..(Len(sent) - 1) :
          Faulty(i) /\ IsLineFrame(sent[i]) /\ IsLineFrame(sent[i + 1])
    /\ \E j \in 1..(Len(sent) - 1) :
          Faulty(j) /\ IsStatusProbe(sent[j]) /\ IsLineFrame(sent[j + 1])

\* this step sends a non-terminal line frame, not the first frame, and its
\* reply is accepted
NonTerminalAccepted ==
    /\ pc = "loop"
    /\ firmware_line_check # USIZE_MAX
    /\ Sends
    /\ IsLineFrame(NewFrame)
    /\ NewFrame.bytes[8] # 7
    /\ ~NewFrameRejected

\* C27, one step of the engine
C27_Step ==
    NonTerminalAccepted =>
        /\ firmware_line_check' = line_number
        /\ line_number' = IF firmware_error_counter % 2 = 0
                          THEN line_number + 1
                          ELSE firmware_line_check + 1
        /\ firmware_error_counter' = 0

\* an iteration after the first is about to start in a run without errors
ErrorFreeIterationStart ==
    /\ faults = <<>>
    /\ pc = "loop"
    /\ LoopCondition(message_type)
    /\ iterations >= 1

\* C27: when the reply to a non-terminal line frame is accepted, line_check
\* becomes the line_number just sent and err_count becomes 0; line_number
\* becomes line_number + 1 when err_count was even, and the old line_check + 1
\* (swap back, then advance) when it was odd.  In a run without errors
\* line_check = line_number - 1 at the start of every iteration after the
\* first.
C27_SuccessPath ==
    /\ [][C27_Step]_vars
    /\ [](ErrorFreeIterationStart => firmware_line_check = line_number - 1)

\* C27 witness: with the S1 image the only rejected exchange was the status
\* probe; the reply to the repeated line 2 was then accepted with err_count 1
C27_Witness ==
    /\ RunsS1Image
    /\ faults = <<5>>
    /\ Len(sent) = 6
    /\ line_number = 4
    /\ firmware_line_check = 2
    /\ firmware_error_counter = 0

\* C28 (as claimed): an exchange of the upload loop that fails (a transport
\* error, handled as a rejected reply) never ends the upload unless the retry
\* cap is thereby exceeded: the loop goes on with a retry.  With the S1 image
\* the upload never ends right after a failed exchange other than by the cap.
C28_TransportErrorRetried ==
    (RunsS1Image /\ pc = "done" /\ LastWasRejected) =>
        /\ result = "Corrupted"
        /\ CapExceeded(firmware_error_counter)

\* this step is the exchange of a line frame on the first iteration
\* (line_check = MAX) and the transfer succeeds
FirstExchangeSucceeds ==
    /\ firmware_line_check = USIZE_MAX
    /\ Sends
    /\ IsLineFrame(NewFrame)
    /\ 39 \notin wired
    /\ 39 \in wired'

\* C29: on the first iteration (line_check = MAX) the reply to the line frame
\* is not examined: whatever it is, line_number becomes 1, line_check becomes
\* 0, err_count stays 0, and nothing counts as acknowledged or as rejected.
C29_FirstReplyIgnored ==
    [][FirstExchangeSucceeds =>
          /\ line_number' = 1
          /\ firmware_line_check' = 0
          /\ firmware_error_counter' = 0
          /\ firmware_error_counter = 0
          /\ UNCHANGED <<acked, faults>>
          /\ pc' = "loop"]_vars

\* C29 witness: the reply to the first line frame had a wrong checksum and
\* the engine went on to line 1 without an error counted
C29_Witness ==
    /\ every_reply_bad
    /\ Len(sent) = 2
    /\ 39 \in wired
    /\ line_number = 1
    /\ firmware_line_check = 0
    /\ firmware_error_counter = 0
    /\ faults = <<>>

\* the acceptance the specification states, on the bytes of the reply
SpecifiedSuccess(rx, check) ==
    /\ rx[45] = ByteSum(rx, 45) % 256
    /\ rx[6] * 256 + rx[7] = check
    /\ rx[8] = 1

\* C30 (as claimed): a reply to a line frame or to a pre-terminal status probe
\* is treated as a success if and only if its byte 45 equals the wrapping sum
\* of its bytes 0..44, its bytes 6-7 read big-endian equal line_check and its
\* byte 8 equals 1; every other reply takes the error path.
C30_AcceptanceRule ==
    verdict # "none" =>
        IF SpecifiedSuccess(reply, expected)
        THEN verdict = "success"
        ELSE verdict = "error"

\* C30 (amended): the same, except for the reply to the first line frame
\* (line_check = MAX), which is not examined and takes neither the success nor
\* the error path.
C30_AcceptanceRule_Amended ==
    verdict # "none" =>
        IF exchange = "line" /\ expected = USIZE_MAX
        THEN verdict = "ignored"
        ELSE IF SpecifiedSuccess(reply, expected)
             THEN verdict = "success"
             ELSE verdict = "error"

\* C30 witness: a reply that acknowledges line 256 (bytes 6-7 = 1, 0), with a
\* payload byte inside the checksum range and a byte after the checksum, has
\* been accepted
C30_Witness ==
    /\ verdict = "success"
    /\ expected = 256
    /\ reply[6] = 1 /\ reply[7] = 0
    /\ reply[44] # 0
    /\ reply[46] # 0

\* this step is an exchange of the upload loop, after the first one, whose
\* reply is accepted
AcceptedExchange ==
    /\ LoopExchange
    /\ firmware_line_check # USIZE_MAX
    /\ ~NewFrameRejected

\* C31 (as claimed): err_count counts the consecutive errors: every accepted
\* reply (to a line frame, to the pre-terminal status probe or to the terminal
\* frame) leaves it at 0.
C31_ConsecutiveErrorCounter == [][AcceptedExchange => firmware_error_counter' = 0]_vars

\* entries of oplog
IsErase(e) == e.op = "transfer" /\ e.len = BOOTMESSAGE_LENGTH + 1 /\ e.bytes[0] = 29

IsBareWipe(e) == IsErase(e) /\ e.bytes[6] = 255 /\ e.bytes[7] = 255 /\ e.bytes[8] = 255

IsDummyWrite(e) == e.op = "transfer" /\ e.len = BufLen(DUMMY_MESSAGE)

IsIdentify(e) == e.op = "transfer" /\ e.len = BOOTMESSAGE_LENGTH + 1 /\ e.bytes[0] = 9

IsReset(e, state) == e.op = "reset" /\ e.ok = state

IsDrain(e) == e.op = "drain"

IsWait(e, ms) == e.op = "wait" /\ e.ms = ms

\* the erase frame at position j of oplog, once written, is followed by the
\* wait of 3500 ms
ErasureAwaited(j) ==
    oplog[j].ok =>
        IF j < Len(oplog) THEN IsWait(oplog[j + 1], 3500)
        ELSE phase \in {"wait", "wipe_wait"} /\ wait_ms = 3500

\* the operations before position j are: dummy write, reset asserted, reset
\* deasserted, drain
FullPrelude(j) ==
    /\ j >= 5
    /\ IsDummyWrite(oplog[j - 4]) /\ oplog[j - 4].ok
    /\ IsReset(oplog[j - 3], TRUE)
    /\ IsReset(oplog[j - 2], FALSE)
    /\ IsDrain(oplog[j - 1])

WaitEnds ==
    /\ phase \in {"wait", "wipe_wait"}
    /\ Len(oplog') = Len(oplog) + 1

\* the erase frame is about to be written, or its completion is awaited
EraseUnderWay ==
    \/ phase \in {"erase", "wipe_frame", "wipe_wait"}
    \/ phase = "wait" /\ wait_ms = 3500

\* C33: the erase-completion wait is never satisfied by a stale edge: when the
\* drain loop ends no event raised before is left in the queue (until the
\* wait is over the queue holds only events raised after the drain), and the
\* 3500 ms wait ends with an event raised after the drain had ended or, with
\* no event there, with the timeout.
C33_NoStaleEdge ==
    /\ [](EraseUnderWay => \A k \in 1..Len(interrupt) : interrupt[k] = Drains)
    /\ [][(WaitEnds /\ wait_ms = 3500) =>
              IF interrupt # <<>>
              THEN woke'[3500] = <<TRUE, Drains>> /\ interrupt' = Tail(interrupt)
              ELSE woke'[3500] = <<FALSE, -1>>]_vars

\* C33 witness: the drain before the erase took two events raised earlier, and
\* the wait for the erase was ended by an event raised after that drain
C33_Witness ==
    /\ Drains = 1
    /\ drained = 2
    /\ woke[3500] = <<TRUE, 1>>
    /\ IsWait(oplog[Len(oplog)], 3500)

\* C34: however an interrupt wait ends (an event or the timeout), for the
\* 3500 ms erase wait, the 1 ms per-line wait and the 5 ms status-probe wait
\* alike, the program state is what it was before the wait: line_number,
\* line_check, err_count, message_type and the result are unchanged, and the
\* session goes on from the same place.
C34_WaitOutcomeIgnored ==
    [][WaitEnds =>
          /\ run' = run
          /\ phase' = IF phase = "wipe_wait" THEN "end" ELSE AfterStep(run)]_vars

\* C34 witness: the latest wait of each kind ended with the timeout and the
\* upload has ended Ok
C34_Witness ==
    /\ phase = "end"
    /\ run.result = "Ok"
    /\ \A ms \in WaitTimeouts : woke[ms] = <<FALSE, -1>>
    /\ \A ms \in WaitTimeouts : \E i \in 1..Len(oplog) : IsWait(oplog[i], ms)

\* C35: for a record at a line index below 65536, with type nibble t and a
\* declared length N of at most 35, the line frame has the index in bytes 6-7
\* (big-endian), t in byte 8, the length byte and the N bytes after it in
\* bytes 9..9+N as the record gives them, and the frame checksum in byte 45.
C35_LineFramePayload ==
    (frame_pc = "built" /\ Len(given.body) <= 35 /\ srec_index < 65536) =>
        LET N == Len(given.body)
            payload == <<N>> \o given.body
        IN  /\ frame_buf[6] \in 0..255 /\ frame_buf[7] \in 0..255
            /\ frame_buf[6] * 256 + frame_buf[7] = srec_index
            /\ frame_buf[8] = given.type
            /\ \A k \in 0..N : frame_buf[9 + k] = payload[k + 1]
            /\ frame_buf[45] = ByteSum(frame_buf, 45) % 256

\* the longest payload at a two-byte line index has been framed over a
\* buffer that held another frame
C35_Witness ==
    /\ frame_pc = "built"
    /\ Len(given.body) = 35
    /\ srec_index = 4660
    /\ given.type = 7
    /\ frame_buf[6] = 18 /\ frame_buf[7] = 52
    /\ frame_buf[44] = given.body[35]

\* C36 (as claimed): at the top of every iteration of the upload loop,
\* whatever the replies were, line_number is the index of an existing record
\* not beyond the terminal type-7 record: lines[line_number] is never out of
\* range and line_number is never the MAX sentinel (the S1 image).
C36_LineNumberInRange ==
    (RunsS1Image /\ pc = "loop" /\ LoopCondition(message_type)) =>
        /\ line_number # USIZE_MAX
        /\ LineExists(lines, line_number)
        /\ \E t \in 0..(Len(lines) - 1) : IsTerminal(lines, t) /\ line_number <= t

\* C37 (as claimed): the evaluation of the reply to the post-terminal probe
\* never reads the 61-byte buffer out of range: whatever the reply holds (any
\* value of its byte 1 included) and when the transfer failed, the engine
\* decides and goes on with the loop.
C37_EscapeEvaluationInRange == [][pc = "escape" => pc' = "loop"]_vars

\* C38 (as claimed): once every reply is acceptable the engine recovers and
\* returns Ok.  A consequence, for the S1 image: a run does not end other than
\* Ok after an exchange that was accepted; it can only end so with the very
\* exchange that failed.
C38_RecoversOnceRepliesAreGood ==
    (RunsS1Image /\ pc = "done" /\ Len(sent) >= 2 /\ ~Faulty(Len(sent))) =>
        result = "Ok"

\* C39 (as claimed): in an update of all modules every session runs to its own
\* result whatever the other sessions do, and the exit of the process is
\* decided (and the inventory written) only after all of them have ended: once
\* main has chosen its exit function no session is still running.
C39_SessionsIndependent ==
    (command = "update_all" /\ exit_fn # "none") =>
        \A i \in 1..Len(tasks) : tasks[i] # "running"

====
